---- MODULE Spec2Model ----
(***************************************************************************)
(* Model of cfgbuild's Builder (src/unnamed/part_006): the tag interpreter *)
(* (getTagEnvVarName, getTagAttribute, getTagAttributeNames,               *)
(* validateCfgTags) and the build lifecycle (Build, fieldLoop,             *)
(* setFieldValue, checkRequired) with nested sub-builds run as frames of a *)
(* call stack.                                                             *)
(*                                                                         *)
(* A tag value is a sequence of tokens.  The separators "," and "=" and    *)
(* the four attribute names are tokens of their own; every other token is  *)
(* a piece of text that contains no separator and no attribute name, so    *)
(* strings.Split, strings.HasPrefix and strings.Contains act on tokens     *)
(* exactly as they act on the characters of the tag they stand for.        *)
(***************************************************************************)
EXTENDS Integers, Sequences, FiniteSets, TLC

VARIABLES stack, env, result, crashed, log, hookFail, tagIn, tagOut, coIn, coOut

vars == <<stack, env, result, crashed, log, hookFail, tagIn, tagOut, coIn, coOut>>

buildVars == <<stack, env, result, crashed, log, hookFail>>

tagVars == <<tagIn, tagOut>>

coVars == <<coIn, coOut>>

-----------------------------------------------------------------------------
(* Bounds *)

MaxAttrs == 2

(* the number of nested Build calls the stack of the goroutine has room for *)
MaxDepth == 4

(* the length of the strings coerced into lists and maps, in characters *)
MaxLen == 5

(* the length of the strings coerced into integers, in tokens *)
MaxIntLen == 3

-----------------------------------------------------------------------------
(* Strings *)

RECURSIVE Join(_)
Join(s) == IF s = <<>> THEN "" ELSE Head(s) \o Join(Tail(s))

Quote(s) == "\"" \o s \o "\""

RECURSIVE JoinWith(_, _)
JoinWith(ss, sep) ==
    IF ss = <<>> THEN ""
    ELSE IF Len(ss) = 1 THEN Head(ss)
    ELSE Head(ss) \o sep \o JoinWith(Tail(ss), sep)

(* strings.Split on a one-token separator: n separators give n+1 pieces *)
RECURSIVE SplitOn(_, _)
SplitOn(s, sep) ==
    IF \A i \in 1..Len(s) : s[i] /= sep THEN <<s>>
    ELSE LET i == CHOOSE j \in 1..Len(s) :
                     /\ s[j] = sep
                     /\ \A k \in 1..(j-1) : s[k] /= sep
         IN  <<SubSeq(s, 1, i-1)>> \o SplitOn(SubSeq(s, i+1, Len(s)), sep)

-----------------------------------------------------------------------------
(* Errors *)

NoErr == [kind |-> "nil", msg |-> "", FieldName |-> "", TagKey |-> "", TagValue |-> ""]

Errorf(m) == [kind |-> "error", msg |-> m, FieldName |-> "", TagKey |-> "", TagValue |-> ""]

TagSyntaxError(fieldName, tagKey, tagValue, m) ==
    [kind |-> "TagSyntaxError", msg |-> m, FieldName |-> fieldName,
     TagKey |-> tagKey, TagValue |-> tagValue]

-----------------------------------------------------------------------------
(* Tag interpreter *)

DefaultTagKey == "envvar"

tagAttrDefault == "default"

tagAttrPrefix == "prefix"

tagAttrRequired == "required"

tagAttrUnmarshalJSON == "unmarshalJSON"

allTagAttr == <<tagAttrDefault, tagAttrPrefix, tagAttrRequired, tagAttrUnmarshalJSON>>

hasValue(a) == a \in {tagAttrDefault, tagAttrPrefix}

getTagEnvVarName(tagVal) == Join(SplitOn(tagVal, ",")[1])

(* the first segment, the key included, that is the bare name or starts with name= *)
getTagAttribute(tagVal, attributeName) ==
    LET segs == SplitOn(tagVal, ",")
        hit(a) == \/ a = <<attributeName>>
                  \/ /\ Len(a) >= 2
                     /\ a[1] = attributeName
                     /\ a[2] = "="
        hits == {i \in 1..Len(segs) : hit(segs[i])}
    IN  IF hits = {} THEN [val |-> "", found |-> FALSE]
        ELSE LET i == CHOOSE j \in hits : \A k \in hits : j <= k
                 a == segs[i]
             IN  IF a = <<attributeName>> THEN [val |-> "", found |-> TRUE]
                 ELSE [val |-> Join(SubSeq(a, 3, Len(a))), found |-> TRUE]

getTagAttributeNames(tagValue) ==
    LET segs == SplitOn(tagValue, ",")
    IN  [i \in 1..(Len(segs) - 1) |-> Join(SplitOn(segs[i+1], "=")[1])]

(* strings.Contains(tagValue, string(attr)+"=") *)
ContainsAttrEq(tagValue, attr) ==
    \E i \in 1..(Len(tagValue) - 1) : tagValue[i] = attr /\ tagValue[i+1] = "="

LowerLetters == {"a", "b", "c", "d", "e", "f", "g", "h", "i", "j", "k", "l", "m", "n",
                 "o", "p", "q", "r", "s", "t", "u", "v", "w", "x", "y", "z"}

isPublicField(f) == f.first \notin LowerLetters

(* json.Unmarshal of "{}" succeeds on structs, pointers to structs and maps *)
JSONProbeOK(kind) == kind \in {"struct", "ptrstruct", "map", "json"}

getTagKey(tagKey) == IF tagKey = "" THEN DefaultTagKey ELSE tagKey

(* mutant of TagLookup: a tag under any key counts as the tag of the field *)
TagLookupAnyKey(f, tagKey) ==
    IF DOMAIN f.tags /= {}
    THEN [val |-> f.tags[CHOOSE k \in DOMAIN f.tags : TRUE], ok |-> TRUE]
    ELSE [val |-> <<>>, ok |-> FALSE]

(* field.Tag.Lookup(b.getTagKey()) *)
TagLookup(f, tagKey) ==
    IF getTagKey(tagKey) \in DOMAIN f.tags
    THEN [val |-> f.tags[getTagKey(tagKey)], ok |-> TRUE]
    ELSE [val |-> <<>>, ok |-> FALSE]

(* mutant of FirstUnknownAttr: rule 7 is never applied *)
FirstUnknownAttrNone(tagValue) == ""

(* rule 7: the first attribute name that is neither known nor empty, or "" *)
FirstUnknownAttr(tagValue) ==
    LET names == getTagAttributeNames(tagValue)
        known(n) == \E k \in 1..Len(allTagAttr) : n = allTagAttr[k]
        bad == {i \in 1..Len(names) : ~known(names[i]) /\ names[i] /= ""}
    IN  IF bad = {} THEN ""
        ELSE names[CHOOSE i \in bad : \A k \in bad : i <= k]

(* rule 8: the first attribute, in the order of allTagAttr, with the wrong arity *)
RECURSIVE ArityError(_, _)
ArityError(tagValue, k) ==
    IF k > Len(allTagAttr) THEN ""
    ELSE LET attr == allTagAttr[k]
         IN  IF getTagAttribute(tagValue, attr).found
                THEN IF hasValue(attr) /\ ~ContainsAttrEq(tagValue, attr)
                        THEN "the " \o Quote(attr) \o " attribute requires a value"
                     ELSE IF ~hasValue(attr) /\ ContainsAttrEq(tagValue, attr)
                        THEN "the " \o Quote(attr) \o " attribute may not have a value"
                     ELSE ArityError(tagValue, k + 1)
                ELSE ArityError(tagValue, k + 1)

(* mutant of validateField: the arity check (rule 8) made ahead of rule 7 *)
validateFieldArityFirst(f, tagKey, cfgNil) ==
    LET tagValue == TagLookup(f, tagKey).val
        raw == Join(tagValue)
        envVarName == getTagEnvVarName(tagValue)
        E(m) == [panic |-> "", err |-> TagSyntaxError(f.name, getTagKey(tagKey), raw, m)]
    IN  IF ~isPublicField(f)
           THEN E("non-public fields may not have the tag set")
        ELSE IF envVarName = ""
           THEN E("tag does not have the name attribute set")
        ELSE IF envVarName = ">" /\ getTagAttribute(tagValue, tagAttrDefault).found
           THEN E("the \"default\" attribute is not allowed on \">\" nested config fields")
        ELSE IF envVarName = "-" /\ getTagAttribute(tagValue, tagAttrRequired).found
           THEN E("the \"required\" attribute is not allowed on \"-\" fields")
        ELSE IF getTagAttribute(tagValue, tagAttrUnmarshalJSON).found /\ cfgNil
           THEN [panic |-> "reflect: call of reflect.Value.Field on zero Value", err |-> NoErr]
        ELSE IF getTagAttribute(tagValue, tagAttrUnmarshalJSON).found /\ ~JSONProbeOK(f.kind)
           THEN E("field type does not support \"unmarshalJSON\" tag attribute")
        ELSE IF envVarName /= ">" /\ getTagAttribute(tagValue, tagAttrPrefix).found
           THEN E("the \"prefix\" attribute is only allowed on \">\" nested config fields")
        ELSE IF ArityError(tagValue, 1) /= ""
           THEN E(ArityError(tagValue, 1))
        ELSE IF FirstUnknownAttr(tagValue) /= ""
           THEN E("tag value contains non-existent attribute " \o Quote(FirstUnknownAttr(tagValue)))
        ELSE [panic |-> "", err |-> NoErr]

(* the body of validateCfgTags' loop for one tagged field; cfgNil: the     *)
(* configuration pointer is nil, so that value.Field(i) faults             *)
validateField(f, tagKey, cfgNil) ==
    LET tagValue == TagLookup(f, tagKey).val
        raw == Join(tagValue)
        envVarName == getTagEnvVarName(tagValue)
        E(m) == [panic |-> "", err |-> TagSyntaxError(f.name, getTagKey(tagKey), raw, m)]
    IN  IF ~isPublicField(f)
           THEN E("non-public fields may not have the tag set")
        ELSE IF envVarName = ""
           THEN E("tag does not have the name attribute set")
        ELSE IF envVarName = ">" /\ getTagAttribute(tagValue, tagAttrDefault).found
           THEN E("the \"default\" attribute is not allowed on \">\" nested config fields")
        ELSE IF envVarName = "-" /\ getTagAttribute(tagValue, tagAttrRequired).found
           THEN E("the \"required\" attribute is not allowed on \"-\" fields")
        ELSE IF getTagAttribute(tagValue, tagAttrUnmarshalJSON).found /\ cfgNil
           THEN [panic |-> "reflect: call of reflect.Value.Field on zero Value", err |-> NoErr]
        ELSE IF getTagAttribute(tagValue, tagAttrUnmarshalJSON).found /\ ~JSONProbeOK(f.kind)
           THEN E("field type does not support \"unmarshalJSON\" tag attribute")
        ELSE IF envVarName /= ">" /\ getTagAttribute(tagValue, tagAttrPrefix).found
           THEN E("the \"prefix\" attribute is only allowed on \">\" nested config fields")
        ELSE IF FirstUnknownAttr(tagValue) /= ""
           THEN E("tag value contains non-existent attribute " \o Quote(FirstUnknownAttr(tagValue)))
        ELSE IF ArityError(tagValue, 1) /= ""
           THEN E(ArityError(tagValue, 1))
        ELSE [panic |-> "", err |-> NoErr]

(* validateCfgTags over the fields from index i on: the first fault or error *)
RECURSIVE validateFrom(_, _, _, _)
validateFrom(fields, i, tagKey, cfgNil) ==
    IF i > Len(fields) THEN [panic |-> "", err |-> NoErr]
    ELSE IF ~TagLookup(fields[i], tagKey).ok
        THEN validateFrom(fields, i + 1, tagKey, cfgNil)
    ELSE LET r == validateField(fields[i], tagKey, cfgNil)
         IN  IF r.panic /= "" \/ r.err /= NoErr THEN r
             ELSE validateFrom(fields, i + 1, tagKey, cfgNil)

-----------------------------------------------------------------------------
(* Configuration types: the structs the tests build, reduced to the field   *)
(* kinds "int", "string", "ptrint" (pointer to int), "struct", "ptrstruct"  *)

Tagged(name, first, kind, elem, tag) ==
    [name |-> name, first |-> first, kind |-> kind, elem |-> elem,
     tags |-> [k \in {DefaultTagKey} |-> tag]]

(* a field tagged under a tag key of the caller's choice, as with           *)
(* Builder.TagKey                                                           *)
TaggedUnder(tagKey, name, first, kind, elem, tag) ==
    [name |-> name, first |-> first, kind |-> kind, elem |-> elem,
     tags |-> [k \in {tagKey} |-> tag]]

Untagged(name, first, kind, elem) ==
    [name |-> name, first |-> first, kind |-> kind, elem |-> elem, tags |-> <<>>]

NoHook == [has |-> FALSE, field |-> "", val |-> <<>>]

(* CfgBuildInit of the tests: assigns one field, as TestConfig's does *)
InitSets(field, val) == [has |-> TRUE, field |-> field, val |-> <<val>>]

Types ==
    [TestConfig |->
        [struct |-> TRUE, name |-> "cfgbuild.TestConfig",
         init |-> InitSets("MyInt", 8081), validate |-> TRUE,
         fields |-> << Tagged("MyInt", "M", "int", "", <<"MY_INT">>),
                       Tagged("MyUInt", "M", "int", "", <<"MY_UINT", ",", "required">>),
                       Tagged("MyDefaultInt", "M", "int", "",
                              <<"MY_DEFAULT_INT", ",", "default", "=", "1234">>),
                       Untagged("NotSet", "N", "int", "") >>],
     TestParentConfig |->
        [struct |-> TRUE, name |-> "cfgbuild.TestParentConfig",
         init |-> InitSets("MyChild", [MyVal |-> 7, Grand |-> [G |-> 0]]),
         validate |-> FALSE,
         fields |-> << Tagged("MyInt", "M", "int", "", <<"MY_INT", ",", "default", "=", "1">>),
                       Tagged("MyChild", "M", "struct", "TestChildConfig",
                              <<">", ",", "prefix", "=", "P_">>),
                       Tagged("MyPointerChild", "M", "ptrstruct", "TestChildConfig",
                              <<">">>) >>],
     TestChildConfig |->
        [struct |-> TRUE, name |-> "cfgbuild.TestChildConfig",
         init |-> NoHook, validate |-> FALSE,
         fields |-> << Tagged("MyVal", "M", "int", "", <<"MY_VAL">>),
                       Tagged("Grand", "G", "struct", "TestGrandConfig",
                              <<">", ",", "prefix", "=", "Q_">>) >>],
     TestGrandConfig |->
        [struct |-> TRUE, name |-> "cfgbuild.TestGrandConfig",
         init |-> NoHook, validate |-> FALSE,
         fields |-> << Tagged("G", "G", "int", "", <<"G">>) >>],
     TestPointerConfig |->
        [struct |-> TRUE, name |-> "cfgbuild.TestPointerConfig",
         init |-> NoHook, validate |-> FALSE,
         fields |-> << Tagged("MyInt", "M", "ptrint", "", <<"MY_INT">>),
                       Tagged("NotConfig", "N", "ptrstruct", "TestGrandConfig",
                              <<"MY_UINT", ",", "default", "=", "1">>),
                       Tagged("MyString", "M", "string", "", <<"MY_STRING">>),
                       Tagged("Plain", "P", "struct", "TestGrandConfig", <<"MY_VAL">>) >>],
     BadTagConfig |->
        [struct |-> TRUE, name |-> "cfgbuild.BadTagConfig",
         init |-> InitSets("MyInt", 8081), validate |-> TRUE,
         fields |-> << Tagged("MyInt", "M", "int", "", <<"MY_INT", ",", "default", "=", "1">>),
                       Tagged("NoEnvVarName", "N", "int", "", <<",", "required">>) >>],
     BadNestedConfig |->
        [struct |-> TRUE, name |-> "cfgbuild.BadNestedConfig",
         init |-> InitSets("MyInt", 8081), validate |-> TRUE,
         fields |-> << Tagged("MyInt", "M", "int", "", <<"MY_INT", ",", "default", "=", "1">>),
                       Tagged("Nested", "N", "struct", "BadChildConfig", <<">">>) >>],
     BadChildConfig |->
        [struct |-> TRUE, name |-> "cfgbuild.BadChildConfig",
         init |-> InitSets("MyVal", 7), validate |-> FALSE,
         fields |-> << Tagged("MyVal", "M", "int", "", <<"MY_VAL", ",", "ninja">>) >>],
     NestedIntConfig |->
        [struct |-> TRUE, name |-> "cfgbuild.NestedIntConfig",
         init |-> NoHook, validate |-> FALSE,
         fields |-> << Tagged("MyInt", "M", "int", "", <<"MY_INT">>),
                       Tagged("NotStruct", "N", "int", "", <<">">>) >>],
     TestOddConfig |->
        [struct |-> TRUE, name |-> "cfgbuild.TestOddConfig",
         init |-> NoHook, validate |-> FALSE,
         fields |-> << Tagged("DefaultOnly", "D", "int", "", <<"-", ",", "default", "=", "7">>),
                       Tagged("AltNested", "A", "ptrstruct", "TestOddNestedConfig",
                              <<">", ",", "prefix", "=", "ALT_">>),
                       Untagged("IgnoredNested", "I", "struct", "TestGrandConfig"),
                       Tagged("IgnoredNested2", "I", "struct", "TestGrandConfig", <<"-">>),
                       Untagged("NotConfig", "N", "ptrstruct", "TestGrandConfig") >>],
     TestOddNestedConfig |->
        [struct |-> TRUE, name |-> "cfgbuild.TestOddNestedConfig",
         init |-> InitSets("MyVal", 7), validate |-> TRUE,
         fields |-> << Tagged("MyVal", "M", "int", "", <<"MY_VAL">>),
                       Tagged("Dash", "D", "int", "", <<"-", ",", "default", "=", "1">>) >>],
     TestJSONConfig |->
        [struct |-> TRUE, name |-> "cfgbuild.TestJSONConfig",
         init |-> NoHook, validate |-> FALSE,
         fields |-> << Tagged("MyInt", "M", "int", "", <<"MY_INT", ",", "default", "=", "1">>),
                       Tagged("DefaultJSONChild", "D", "struct", "TestJSONChild",
                              <<"DEFAULT_JSON_CHILD", ",", "unmarshalJSON", ",",
                                "default", "=", "{\"i\":3}">>) >>],
     TestJSONChild |->
        [struct |-> TRUE, name |-> "cfgbuild.TestJSONChild",
         init |-> NoHook, validate |-> FALSE,
         fields |-> << Untagged("MyInt", "M", "int", ""),
                       Untagged("MyString", "M", "string", "") >>],
     BadJSONDefaultConfig |->
        [struct |-> TRUE, name |-> "cfgbuild.BadJSONDefaultConfig",
         init |-> NoHook, validate |-> FALSE,
         fields |-> << Tagged("JSONChild", "J", "struct", "TestGrandConfig",
                              <<"JSON_CHILD", ",", "unmarshalJSON", ",",
                                "default", "=", "forty-two">>) >>],
     TwoRequiredConfig |->
        [struct |-> TRUE, name |-> "cfgbuild.TwoRequiredConfig",
         init |-> NoHook, validate |-> FALSE,
         fields |-> << Tagged("First", "F", "int", "", <<"KEY_A", ",", "required">>),
                       Tagged("Second", "S", "int", "", <<"KEY_B", ",", "required">>) >>],
     SelfRefConfig |->
        [struct |-> TRUE, name |-> "cfgbuild.SelfRefConfig",
         init |-> NoHook, validate |-> FALSE,
         fields |-> << Tagged("MyInt", "M", "int", "", <<"MY_INT">>),
                       Tagged("Next", "N", "ptrstruct", "SelfRefConfig", <<">">>) >>],
     RequiredDefaultConfig |->
        [struct |-> TRUE, name |-> "cfgbuild.RequiredDefaultConfig",
         init |-> NoHook, validate |-> FALSE,
         fields |-> << Tagged("MyInt", "M", "int", "", <<"MY_INT">>),
                       Tagged("Port", "P", "int", "",
                              <<"PORT", ",", "required", ",", "default", "=", "7">>) >>],
     BadDefaultLateConfig |->
        [struct |-> TRUE, name |-> "cfgbuild.BadDefaultLateConfig",
         init |-> NoHook, validate |-> FALSE,
         fields |-> << Tagged("Early", "E", "int", "", <<"MY_INT", ",", "required">>),
                       Tagged("Late", "L", "int", "",
                              <<"MY_VAL", ",", "default", "=", "forty-two">>) >>],
     NestedRequiredConfig |->
        [struct |-> TRUE, name |-> "cfgbuild.NestedRequiredConfig",
         init |-> NoHook, validate |-> FALSE,
         fields |-> << Tagged("Child", "C", "struct", "RequiredChildConfig", <<">">>),
                       Tagged("MyInt", "M", "int", "", <<"MY_INT">>) >>],
     RequiredChildConfig |->
        [struct |-> TRUE, name |-> "cfgbuild.RequiredChildConfig",
         init |-> NoHook, validate |-> FALSE,
         fields |-> << Tagged("MyVal", "M", "int", "", <<"MY_VAL", ",", "required">>) >>],
     AltTagConfig |->
        [struct |-> TRUE, name |-> "cfgbuild.AltTagConfig",
         init |-> NoHook, validate |-> FALSE,
         fields |-> << TaggedUnder("alt", "Child", "C", "struct", "AltTagChildConfig",
                                   <<">", ",", "prefix", "=", "A_">>),
                       Tagged("MyInt", "M", "int", "", <<"MY_INT">>) >>],
     AltTagChildConfig |->
        [struct |-> TRUE, name |-> "cfgbuild.AltTagChildConfig",
         init |-> NoHook, validate |-> FALSE,
         fields |-> << TaggedUnder("alt", "G", "G", "int", "", <<"G">>),
                       Tagged("MyVal", "M", "int", "", <<"MY_VAL">>) >>],
     DashRequiredConfig |->
        [struct |-> TRUE, name |-> "cfgbuild.DashRequiredConfig",
         init |-> NoHook, validate |-> FALSE,
         fields |-> << Tagged("MyInt", "M", "int", "", <<"MY_INT">>),
                       Tagged("Dash", "D", "int", "", <<"-", ",", "required">>) >>],
     int |->
        [struct |-> FALSE, name |-> "int", init |-> NoHook, validate |-> FALSE,
         fields |-> << >>],
     string |->
        [struct |-> FALSE, name |-> "string", init |-> NoHook, validate |-> FALSE,
         fields |-> << >>]]

TypeNames == DOMAIN Types

(* the types a caller builds, with the keys of the external source each reads *)
RootKeys ==
    [TestConfig |-> {"MY_INT", "MY_UINT", "MY_DEFAULT_INT"},
     TestParentConfig |-> {"MY_INT", "MY_VAL", "P_MY_VAL", "Q_G", "P_Q_G"},
     TestPointerConfig |-> {"MY_INT", "MY_UINT", "MY_STRING", "MY_VAL"},
     BadTagConfig |-> {"MY_INT"},
     BadNestedConfig |-> {"MY_INT", "MY_VAL"},
     NestedIntConfig |-> {"MY_INT"},
     TestOddConfig |-> {"-", "ALT_-", "ALT_MY_VAL", "MY_VAL"},
     DashRequiredConfig |-> {"MY_INT"},
     AltTagConfig |-> {"MY_INT", "A_G", "A_MY_VAL"},
     BadDefaultLateConfig |-> {"MY_INT"},
     NestedRequiredConfig |-> {"MY_INT", "MY_VAL"},
     RequiredDefaultConfig |-> {"MY_INT", "PORT"},
     SelfRefConfig |-> {"MY_INT"},
     TwoRequiredConfig |-> {"KEY_A", "KEY_B"},
     TestJSONConfig |-> {"MY_INT", "DEFAULT_JSON_CHILD"},
     BadJSONDefaultConfig |-> {"JSON_CHILD"},
     int |-> {}]

Roots == DOMAIN RootKeys

AllKeys == UNION {RootKeys[r] : r \in Roots}

(* the values an external key may carry; keys with a malformed value *)
GoodVals == {"42"}

BadVals == {"forty-two"}

BadValKeys == {"MY_INT", "MY_UINT", "MY_VAL"}

(* the keys read with unmarshalJSON and the documents they may carry *)
JSONKeys == {"DEFAULT_JSON_CHILD", "JSON_CHILD"}

JSONVals == {"{\"s\":\"ahoy\"}", "{\"i\":7,\"s\":\"ahoy\"}"}

FieldNames(t) == {Types[t].fields[i].name : i \in 1..Len(Types[t].fields)}

FieldAt(t, fname) ==
    Types[t].fields[CHOOSE i \in 1..Len(Types[t].fields) : Types[t].fields[i].name = fname]

(* reflect.New / the zero value of a field: a pointer is <<>> (nil) or <<v>> *)
RECURSIVE Zero(_, _)
Zero(kind, elem) ==
    CASE kind = "int" -> 0
      [] kind = "string" -> ""
      [] kind \in {"ptrint", "ptrstruct"} -> << >>
      [] kind = "struct" ->
            [n \in FieldNames(elem) |-> Zero(FieldAt(elem, n).kind, FieldAt(elem, n).elem)]

(* the type a field of this kind holds or points to *)
BaseType(f) ==
    CASE f.kind \in {"struct", "ptrstruct"} -> f.elem
      [] f.kind \in {"int", "ptrint"} -> "int"
      [] f.kind = "string" -> "string"

(* strings.HasPrefix(myTyp.String(), "*") *)
IsPointerKind(kind) == kind \in {"ptrint", "ptrstruct"}

(* reflect.New(typ.Elem()): a pointer to a zero value of the type *)
NewOf(t) == IF Types[t].struct THEN << Zero("struct", t) >> ELSE << Zero(t, "") >>

(* an instance a caller filled in before it calls InitConfig: every field *)
(* holds a value that is neither zero nor one a tag or a hook gives it    *)
RECURSIVE Preset(_, _)
Preset(kind, elem) ==
    CASE kind = "int" -> 5
      [] kind = "string" -> "preset"
      [] kind = "ptrint" -> << 5 >>
      [] kind = "ptrstruct" -> << >>
      [] kind = "struct" ->
            [n \in FieldNames(elem) |-> Preset(FieldAt(elem, n).kind, FieldAt(elem, n).elem)]

Supplied(t) == IF Types[t].struct THEN << Preset("struct", t) >> ELSE << Preset(t, "") >>

-----------------------------------------------------------------------------
(* Coercion *)

IntLits == [s \in {"0", "1", "7", "42", "1234"} |->
               CASE s = "0" -> 0 [] s = "1" -> 1 [] s = "7" -> 7
                 [] s = "42" -> 42 [] s = "1234" -> 1234]

(* strconv.ParseInt(s, 10, 64) on the literals of the model *)
ParseInt(s) ==
    IF s \in DOMAIN IntLits
    THEN [err |-> "", val |-> IntLits[s]]
    ELSE [err |-> "strconv.ParseInt: parsing " \o Quote(s) \o ": invalid syntax", val |-> 0]

(* setFieldValue: the error ("" for nil) and the value the field holds after *)
setFieldValue(f, cur, s) ==
    CASE f.kind = "int" ->
            IF ParseInt(s).err /= "" THEN [err |-> ParseInt(s).err, val |-> cur]
            ELSE [err |-> "", val |-> ParseInt(s).val]
      [] f.kind = "string" -> [err |-> "", val |-> s]
      [] f.kind = "ptrint" ->
            IF ParseInt(s).err /= "" THEN [err |-> ParseInt(s).err, val |-> cur]
            ELSE [err |-> "", val |-> << ParseInt(s).val >>]
      [] f.kind = "ptrstruct" -> [err |-> "", val |-> cur]
      [] f.kind = "struct" ->
            [err |-> "unsupported type/kind " \o Quote(Types[f.elem].name \o "/struct"),
             val |-> cur]


(* the JSON documents of the model, each as the fields of TestJSONChild it *)
(* names (MyInt is `json:"i"`, MyString is `json:"s"`) with their values    *)
JSONDocs ==
    [s \in {"{}", "{\"i\":3}", "{\"s\":\"ahoy\"}", "{\"i\":7,\"s\":\"ahoy\"}"} |->
        CASE s = "{}" -> << >>
          [] s = "{\"i\":3}" -> [n \in {"MyInt"} |-> 3]
          [] s = "{\"s\":\"ahoy\"}" -> [n \in {"MyString"} |-> "ahoy"]
          [] s = "{\"i\":7,\"s\":\"ahoy\"}" ->
                [n \in {"MyInt", "MyString"} |-> IF n = "MyInt" THEN 7 ELSE "ahoy"]]

(* mutant of jsonUnmarshal: the document is decoded into a new value, which *)
(* replaces the one the field holds                                         *)
jsonUnmarshalFresh(f, cur, s) ==
    LET over(rec) == [n \in DOMAIN rec |->
                          IF n \in DOMAIN JSONDocs[s] THEN JSONDocs[s][n] ELSE rec[n]]
    IN  IF s \notin DOMAIN JSONDocs
           THEN [err |-> "invalid character 'o' in literal false (expecting 'a')",
                 val |-> cur]
        ELSE IF f.kind = "struct" THEN [err |-> "", val |-> over(Zero("struct", f.elem))]
        ELSE IF f.kind = "ptrstruct"
           THEN [err |-> "", val |-> << over(Zero("struct", f.elem)) >>]
        ELSE [err |-> "json: cannot unmarshal object into Go value of type " \o f.kind,
              val |-> cur]

(* json.Unmarshal([]byte(s), &field): decodes onto the value the field holds *)
jsonUnmarshal(f, cur, s) ==
    LET over(rec) == [n \in DOMAIN rec |->
                          IF n \in DOMAIN JSONDocs[s] THEN JSONDocs[s][n] ELSE rec[n]]
    IN  IF s \notin DOMAIN JSONDocs
           THEN [err |-> "invalid character 'o' in literal false (expecting 'a')",
                 val |-> cur]
        ELSE IF f.kind = "struct" THEN [err |-> "", val |-> over(cur)]
        ELSE IF f.kind = "ptrstruct"
           THEN [err |-> "",
                 val |-> << over(IF cur = << >> THEN Zero("struct", f.elem) ELSE cur[1]) >>]
        ELSE [err |-> "json: cannot unmarshal object into Go value of type " \o f.kind,
              val |-> cur]

-----------------------------------------------------------------------------
(* Coercion into lists, maps and integers of a given width.  The string is  *)
(* a sequence of tokens: a token is one character, or an integer literal    *)
(* that stands for its characters.                                          *)

RECURSIVE TrimLeft(_)
TrimLeft(s) == IF s /= << >> /\ Head(s) = " " THEN TrimLeft(Tail(s)) ELSE s

RECURSIVE TrimRight(_)
TrimRight(s) ==
    IF s /= << >> /\ s[Len(s)] = " " THEN TrimRight(SubSeq(s, 1, Len(s) - 1)) ELSE s

(* strings.TrimSpace *)
TrimSpace(s) == TrimRight(TrimLeft(s))

DefaultListSeparator == ","

DefaultKeyValueSeparator == ":"

(* mutant of listSeparator: the default separator whatever is configured *)
listSeparatorAlwaysDefault(sep) == DefaultListSeparator

(* if sep == "" { sep = DefaultListSeparator } *)
listSeparator(sep) == IF sep = "" THEN DefaultListSeparator ELSE sep

(* split: strings.Split on the separator, each piece trimmed *)
split(s, sep) ==
    LET vals == SplitOn(s, listSeparator(sep))
    IN  [i \in 1..Len(vals) |-> TrimSpace(vals[i])]

(* the integer literals of the model: the value, and the number of bits a  *)
(* signed integer needs to hold it; val is 0 where the value has no use     *)
IntLitBits ==
    [s \in {"42", "200", "-129", "9223372036854775808"} |->
        CASE s = "42" -> [val |-> 42, bits |-> 7]
          [] s = "200" -> [val |-> 200, bits |-> 9]
          [] s = "-129" -> [val |-> -129, bits |-> 9]
          [] s = "9223372036854775808" -> [val |-> 0, bits |-> 65]]

(* strconv.ParseInt(s, 10, bitSize); the value returned with an error is   *)
(* not used by any caller and is given as 0                                 *)
ParseIntBits(s, bitSize) ==
    IF s \notin DOMAIN IntLitBits
       THEN [err |-> "strconv.ParseInt: parsing " \o Quote(s) \o ": invalid syntax", val |-> 0]
    ELSE IF IntLitBits[s].bits > bitSize
       THEN [err |-> "strconv.ParseInt: parsing " \o Quote(s) \o ": value out of range",
             val |-> 0]
    ELSE [err |-> "", val |-> IntLitBits[s].val]

(* reflect.Value.OverflowInt for a field of w bits *)
OverflowInt(w, i) == IF w = 8 THEN i < -128 \/ i > 127 ELSE FALSE

(* parseIntegers[T](s, sep, true, bitsize): the first error, or the values *)
parseIntegers(s, sep, bitsize) ==
    LET vals == split(s, sep)
        parsed == [i \in 1..Len(vals) |-> ParseIntBits(Join(vals[i]), bitsize)]
        bad == {i \in 1..Len(vals) : parsed[i].err /= ""}
    IN  IF bad /= {}
        THEN [err |-> parsed[CHOOSE i \in bad : \A j \in bad : i <= j].err, val |-> << >>]
        ELSE [err |-> "", val |-> [i \in 1..Len(vals) |-> parsed[i].val]]

(* mutant of pairOK: a pair with more than one separator is taken too *)
pairOKAtLeastOne(kv) == Len(kv) >= 2

(* if len(kv) != 2 { return error } *)
pairOK(kv) == Len(kv) = 2

(* setFieldValue for a field of the types int8, int64, *int8, []int8,       *)
(* []string and map[string]string; b holds the options of the Builder       *)
setTypedValue(b, kind, cur, s) ==
    CASE kind \in {"int8", "int64"} ->
            LET p == ParseIntBits(Join(s), 64)
            IN  IF p.err /= "" THEN [err |-> p.err, val |-> cur]
                ELSE IF OverflowInt(IF kind = "int8" THEN 8 ELSE 64, p.val)
                   THEN [err |-> "overflow error", val |-> cur]
                ELSE [err |-> "", val |-> p.val]
      [] kind = "*int8" ->
            LET p == ParseIntBits(Join(s), 8)
            IN  IF p.err /= "" THEN [err |-> p.err, val |-> cur]
                ELSE [err |-> "", val |-> << p.val >>]
      [] kind = "[]int8" ->
            LET p == parseIntegers(s, b.ListSeparator, 8)
            IN  IF p.err /= "" THEN [err |-> p.err, val |-> cur]
                ELSE [err |-> "", val |-> p.val]
      [] kind = "[]string" ->
            LET vals == split(s, b.ListSeparator)
            IN  [err |-> "", val |-> [i \in 1..Len(vals) |-> Join(vals[i])]]
      [] kind = "map[string]string" ->
            LET kvsep == IF b.KeyValueSeparator = "" THEN DefaultKeyValueSeparator
                         ELSE b.KeyValueSeparator
                pairs == split(s, b.ListSeparator)
                kvs == [i \in 1..Len(pairs) |-> split(pairs[i], kvsep)]
                keys == {Join(kvs[i][1]) : i \in 1..Len(pairs)}
                last(k) == CHOOSE i \in 1..Len(pairs) :
                              /\ Join(kvs[i][1]) = k
                              /\ \A j \in 1..Len(pairs) : Join(kvs[j][1]) = k => j <= i
            IN  IF \E i \in 1..Len(pairs) : ~pairOK(kvs[i])
                   THEN [err |-> "key/value pair must contain exactly one "
                                    \o Quote(kvsep) \o " separator",
                         val |-> cur]
                ELSE [err |-> "", val |-> [k \in keys |-> Join(kvs[last(k)][2])]]

-----------------------------------------------------------------------------
(* The call stack of Build.  A frame is one Builder with the position of    *)
(* its Build call: pc is the lifecycle stage it is in, idx the field        *)
(* fieldLoop is at.  cfg is <<>> for a nil pointer, <<v>> for a pointer to  *)
(* v.  setProps is the map b.setProps: made is FALSE while the map is nil.  *)
(* ran (the stages entered), pre (the instance as ApplyDefaults found it)   *)
(* and logStart (the length of log when the frame began) record history.    *)

StageOrder == <<"Instantiate", "ValidateTags", "PreInit", "ApplyDefaults",
                "ResolveExternal", "CheckRequired", "PostValidate">>

(* mutant of NextStage: the init hook is called ahead of validateCfgTags *)
NextStageHookFirst(stage) ==
    CASE stage = "Instantiate" -> "PreInit"
      [] stage = "PreInit" -> "ValidateTags"
      [] stage = "ValidateTags" -> "ApplyDefaults"
      [] stage = "ApplyDefaults" -> "ResolveExternal"
      [] stage = "ResolveExternal" -> "CheckRequired"
      [] stage = "CheckRequired" -> "PostValidate"
      [] stage = "PostValidate" -> "Return"

(* mutant of NextStage: readEnvVars is called ahead of setDefaults *)
NextStageExternalFirst(stage) ==
    CASE stage = "Instantiate" -> "ValidateTags"
      [] stage = "ValidateTags" -> "PreInit"
      [] stage = "PreInit" -> "ResolveExternal"
      [] stage = "ResolveExternal" -> "ApplyDefaults"
      [] stage = "ApplyDefaults" -> "CheckRequired"
      [] stage = "CheckRequired" -> "PostValidate"
      [] stage = "PostValidate" -> "Return"

(* the order of the calls in Build: the stage that follows a stage *)
NextStage(stage) ==
    CASE stage = "Instantiate" -> "ValidateTags"
      [] stage = "ValidateTags" -> "PreInit"
      [] stage = "PreInit" -> "ApplyDefaults"
      [] stage = "ApplyDefaults" -> "ResolveExternal"
      [] stage = "ResolveExternal" -> "CheckRequired"
      [] stage = "CheckRequired" -> "PostValidate"
      [] stage = "PostValidate" -> "Return"

NewFrame(t, cfg, instantiated, prefix, throwPanics, tagKey, prefixFallback, logStart) ==
    [typ |-> t, cfg |-> cfg, instantiated |-> instantiated,
     PrefixFallback |-> prefixFallback,
     ListSeparator |-> "", KeyValueSeparator |-> "", Uint8Lists |-> FALSE,
     setProps |-> [made |-> FALSE, keys |-> {}],
     prefix |-> prefix, throwPanics |-> throwPanics, TagKey |-> tagKey,
     pc |-> "Instantiate", idx |-> 1, ran |-> <<"Instantiate">>,
     err |-> NoErr, ret |-> << >>, pre |-> << >>, logStart |-> logStart]

(* mutant of CopyPolicy: the nested Builder is left with Uint8Lists unset *)
CopyPolicyWithoutUint8Lists(cb, b) ==
    [cb EXCEPT !.ListSeparator = b.ListSeparator,
               !.KeyValueSeparator = b.KeyValueSeparator,
               !.TagKey = b.TagKey]

(* the options the Builder literal of a nested field copies from b *)
CopyPolicy(cb, b) ==
    [cb EXCEPT !.ListSeparator = b.ListSeparator,
               !.KeyValueSeparator = b.KeyValueSeparator,
               !.TagKey = b.TagKey,
               !.Uint8Lists = b.Uint8Lists]

(* the nested Builder has the PrefixFallback option of b *)
InheritFallback(cb, b) == [cb EXCEPT !.PrefixFallback = b.PrefixFallback]

(* the options a caller sets on a Builder: the zero values and other ones *)
DefaultPolicy ==
    [ListSeparator |-> "", KeyValueSeparator |-> "", TagKey |-> "", Uint8Lists |-> FALSE]

Policies ==
    { DefaultPolicy,
      [ListSeparator |-> ";", KeyValueSeparator |-> "=", TagKey |-> "alt", Uint8Lists |-> TRUE],
      [ListSeparator |-> ";", KeyValueSeparator |-> "", TagKey |-> "", Uint8Lists |-> TRUE],
      [ListSeparator |-> "", KeyValueSeparator |-> "=", TagKey |-> "alt", Uint8Lists |-> FALSE] }

(* Builder[T]{ListSeparator: ..., KeyValueSeparator: ..., TagKey: ..., Uint8Lists: ...} *)
WithOptions(b, policy) ==
    [b EXCEPT !.ListSeparator = policy.ListSeparator,
              !.KeyValueSeparator = policy.KeyValueSeparator,
              !.TagKey = policy.TagKey,
              !.Uint8Lists = policy.Uint8Lists]

(* the types built with other options than the zero values *)
PolicyRoots == {"AltTagConfig", "TestParentConfig"}

Top == stack[Len(stack)]

Depth == Len(stack)

SetTop(stk, f) == [stk EXCEPT ![Len(stk)] = f]

(* the frame moves on to the stage that follows the one it is in *)
Goto(f) ==
    IF NextStage(f.pc) = "Return" THEN [f EXCEPT !.pc = "Return", !.ret = f.cfg]
    ELSE [f EXCEPT !.pc = NextStage(f.pc), !.idx = 1, !.ran = Append(@, NextStage(f.pc))]

(* mutant of ReturnWith: the error is kept but Build goes on to the next stage *)
ReturnWithFallThrough(f, err) == [Goto(f) EXCEPT !.err = err]

(* if err != nil { return b.cfg, err } *)
ReturnWith(f, err) == [f EXCEPT !.pc = "Return", !.err = err, !.ret = f.cfg]

(* the deferred recover of Build: cfg keeps its zero value, err is set *)
Recovered(f, desc) ==
    [f EXCEPT !.pc = "Return", !.err = Errorf("builder panic:  " \o desc), !.ret = << >>]

(* mutant of Raise: Build defers no recover *)
RaiseUnrecovered(stk, desc) == [stack |-> << >>, crashed |-> desc]

(* a runtime fault in the top frame unwinds to the nearest frame that      *)
(* recovers (throwPanics unset), or leaves Build when there is none        *)
RECURSIVE Raise(_, _)
Raise(stk, desc) ==
    IF stk = << >> THEN [stack |-> << >>, crashed |-> desc]
    ELSE IF ~stk[Len(stk)].throwPanics
        THEN [stack |-> SetTop(stk, Recovered(stk[Len(stk)], desc)), crashed |-> ""]
    ELSE Raise(SubSeq(stk, 1, Len(stk) - 1), desc)

(* the prefixes of the nested fields that lead to the top frame, joined *)
AccPrefix == Join([i \in 1..Len(stack) |-> stack[i].prefix])

(* an entry of log: what happened (ev), in which frame (depth, typ), to    *)
(* what (field: a field name, an external key or a fault description);     *)
(* for a lookup, name is the tag's key and acc is AccPrefix                *)
Event(ev, field, name) ==
    [ev |-> ev, depth |-> Depth, typ |-> Top.typ, field |-> field,
     name |-> name, acc |-> AccPrefix, prefix |-> Top.prefix,
     fb |-> Top.PrefixFallback, via |-> "", val |-> "", cause |-> ""]

(* mutant of LookupEnv: the external source is never consulted *)
LookupEnvNever(k) == [val |-> "", ok |-> FALSE]

(* os.LookupEnv *)
LookupEnv(k) ==
    IF k \in DOMAIN env /\ env[k] /= << >>
    THEN [val |-> env[k][1], ok |-> TRUE]
    ELSE [val |-> "", ok |-> FALSE]

(* mutant of lookupExternal: the bare key is tried whatever the policy *)
lookupExternalAlwaysFallback(prefix, key, prefixFallback) ==
    IF LookupEnv(prefix \o key).ok
    THEN [val |-> LookupEnv(prefix \o key).val, ok |-> TRUE, via |-> "prefixed"]
    ELSE IF LookupEnv(key).ok
    THEN [val |-> LookupEnv(key).val, ok |-> TRUE, via |-> "bare"]
    ELSE [val |-> "", ok |-> FALSE, via |-> ""]

(* the lookup of a field's key: prefix+key, and with the PrefixFallback    *)
(* option the bare key when prefix+key is not set                          *)
lookupExternal(prefix, key, prefixFallback) ==
    IF LookupEnv(prefix \o key).ok
    THEN [val |-> LookupEnv(prefix \o key).val, ok |-> TRUE, via |-> "prefixed"]
    ELSE IF prefixFallback /\ LookupEnv(key).ok
    THEN [val |-> LookupEnv(key).val, ok |-> TRUE, via |-> "bare"]
    ELSE [val |-> "", ok |-> FALSE, via |-> ""]

Fault(desc, evs) ==
    /\ stack' = Raise(stack, desc).stack
    /\ crashed' = Raise(stack, desc).crashed
    /\ log' = log \o evs \o <<Event("fault", desc, "")>>
    /\ UNCHANGED <<env, result, hookFail, tagIn, tagOut, coIn, coOut>>

(* mutant of Continue: a variable that was read and assigned is unset *)
ContinueUnsetting(f, evs) ==
    /\ stack' = SetTop(stack, f)
    /\ log' = log \o evs
    /\ env' = [k \in DOMAIN env |->
                  IF \E i \in 1..Len(evs) : evs[i].ev = "env" /\ evs[i].field = k
                  THEN << >> ELSE env[k]]
    /\ UNCHANGED <<result, crashed, hookFail, tagIn, tagOut, coIn, coOut>>

Continue(f, evs) ==
    /\ stack' = SetTop(stack, f)
    /\ log' = log \o evs
    /\ UNCHANGED <<env, result, crashed, hookFail, tagIn, tagOut, coIn, coOut>>

Running(stage) == stack /= << >> /\ crashed = "" /\ Top.pc = stage

-----------------------------------------------------------------------------
(* Build, one action per lifecycle stage *)

(* mutant of Instantiate: a new instance is allocated whatever b.instantiated *)
InstantiateAlways ==
    /\ Running("Instantiate")
    /\ Continue(Goto([Top EXCEPT !.cfg = NewOf(Top.typ), !.instantiated = TRUE]), << >>)

(* instantiateCfg *)
Instantiate ==
    /\ Running("Instantiate")
    /\ Continue(Goto(IF ~Top.instantiated
                     THEN [Top EXCEPT !.cfg = NewOf(Top.typ), !.instantiated = TRUE]
                     ELSE Top),
                << >>)

(* validateCfgTags *)
ValidateTags ==
    /\ Running("ValidateTags")
    /\ IF ~Types[Top.typ].struct
          THEN Fault("reflect: NumField of non-struct type " \o Types[Top.typ].name, << >>)
       ELSE LET r == validateFrom(Types[Top.typ].fields, 1, Top.TagKey, Top.cfg = << >>)
            IN  IF r.panic /= "" THEN Fault(r.panic, << >>)
                ELSE IF r.err /= NoErr THEN Continue(ReturnWith(Top, r.err), << >>)
                ELSE Continue(Goto(Top), << >>)

(* the CfgBuildInit hook, when the configuration has one *)
PreInit ==
    /\ Running("PreInit")
    /\ LET h == Types[Top.typ].init
           hooked == [Top EXCEPT !.cfg = << [Top.cfg[1] EXCEPT ![h.field] = h.val[1]] >>]
           ev == <<Event("init", "", "")>>
       IN  IF ~h.has THEN Continue(Goto(Top), << >>)
           ELSE IF Top.cfg = << >>
              THEN Fault("runtime error: invalid memory address or nil pointer dereference", ev)
           ELSE IF hookFail = "init"
              THEN Continue(ReturnWith(hooked, Errorf("init failed")), ev)
           ELSE Continue(Goto(hooked), ev)

(* mutant of HasSetProps: the nested result is assigned whatever it set *)
HasSetPropsAlways(child) == TRUE

(* len(cb.setProps) > 0 *)
HasSetProps(child) == Cardinality(child.setProps.keys) > 0

(* cb.Build() with no room left on the stack: the runtime ends the process *)
(* with "fatal error: stack overflow", which no deferred recover sees      *)
StackOverflow(fieldName) ==
    /\ stack' = << >>
    /\ result' = [result EXCEPT !.fatal = TRUE]
    /\ log' = Append(log, Event("overflow", fieldName, ""))
    /\ UNCHANGED <<env, crashed, hookFail, tagIn, tagOut, coIn, coOut>>

(* if !setDefault { b.setProps[fieldName] = true } *)
MarksSet(setDefault) == ~setDefault

(* mutant of SkipsExternal: the "-" key is looked up like any other *)
SkipsExternalNever(setDefault, envVarName) == FALSE

(* if !setDefault && envVarName == "-" { continue } *)
SkipsExternal(setDefault, envVarName) == ~setDefault /\ envVarName = "-"

(* the body of fieldLoop for the field at Top.idx, and the end of the loop; *)
(* setDefaults is fieldLoop(true), readEnvVars is fieldLoop(false)          *)
FieldLoop ==
    /\ stack /= << >> /\ crashed = ""
    /\ Top.pc \in {"ApplyDefaults", "ResolveExternal"}
    /\ LET setDefault == Top.pc = "ApplyDefaults"
           fields == Types[Top.typ].fields
           f == fields[Top.idx]
           start == IF setDefault /\ Top.idx = 1 THEN [Top EXCEPT !.pre = Top.cfg] ELSE Top
           next == [start EXCEPT !.idx = @ + 1]
           tag == TagLookup(f, Top.TagKey)
           envVarName == getTagEnvVarName(tag.val)
           def == getTagAttribute(tag.val, tagAttrDefault)
           key == Top.prefix \o envVarName
           hit == lookupExternal(Top.prefix, envVarName, Top.PrefixFallback)
           valStr == IF setDefault THEN def.val ELSE hit.val
           json == getTagAttribute(tag.val, tagAttrUnmarshalJSON).found
           cur == Top.cfg[1][f.name]
           r == IF json THEN jsonUnmarshal(f, cur, valStr) ELSE setFieldValue(f, cur, valStr)
           assigned == [next EXCEPT
                          !.cfg = << [Top.cfg[1] EXCEPT ![f.name] = r.val] >>,
                          !.setProps = IF MarksSet(setDefault)
                                       THEN [@ EXCEPT !.keys = @ \cup {f.name}]
                                       ELSE @]
           wrapped == IF json THEN r.err
                      ELSE IF setDefault
                         THEN "error setting default value for " \o Quote(key)
                                  \o " (" \o r.err \o ")"
                      ELSE "error reading " \o Quote(key) \o " (" \o r.err \o ")"
           ev(e) == <<[Event(e, key, envVarName) EXCEPT
                         !.via = IF setDefault THEN "" ELSE hit.via,
                         !.val = valStr,
                         !.cause = IF e \in {"badenv", "baddefault"} THEN r.err ELSE ""]>>
       IN  IF Top.idx > Len(fields)
              THEN Continue(IF setDefault
                            THEN [Goto(start) EXCEPT !.setProps = [made |-> TRUE, keys |-> {}]]
                            ELSE Goto(Top),
                            << >>)
           ELSE IF ~tag.ok THEN Continue(next, << >>)
           ELSE IF SkipsExternal(setDefault, envVarName) THEN Continue(next, << >>)
           ELSE IF setDefault /\ ~def.found THEN Continue(next, << >>)
           ELSE IF envVarName = ">"
              THEN IF Top.cfg = << >>
                      THEN Fault("reflect: call of reflect.Value.Field on zero Value", << >>)
                   ELSE IF Depth >= MaxDepth THEN StackOverflow(f.name)
                   ELSE /\ log' = Append(log, Event("nested", f.name, ""))
                        /\ stack' = Append(SetTop(stack, start),
                               InheritFallback(
                                 CopyPolicy(
                                   NewFrame(BaseType(f), << >>, FALSE,
                                            getTagAttribute(tag.val, tagAttrPrefix).val,
                                            FALSE, "", FALSE, Len(log) + 1),
                                   Top),
                                 Top))
                        /\ UNCHANGED <<env, result, crashed, hookFail, tagIn, tagOut, coIn, coOut>>
           ELSE IF ~setDefault /\ ~hit.ok THEN Continue(next, ev("miss"))
           ELSE IF Top.cfg = << >>
              THEN Fault("reflect: call of reflect.Value.Field on zero Value", << >>)
           ELSE IF r.err /= ""
              THEN Continue(ReturnWith(start, Errorf(wrapped)),
                            ev(IF setDefault THEN "baddefault" ELSE "badenv"))
           ELSE Continue(assigned, ev(IF setDefault THEN "default" ELSE "env"))

(* mutant of NestedValue: the field is given a fresh instance, not the result *)
NestedValueFresh(f, child) ==
    IF IsPointerKind(f.kind) THEN << Zero("struct", f.elem) >> ELSE Zero("struct", f.elem)

(* value.Field(i).Set(rvo), or Set(rvo.Elem()) for a field that is no pointer *)
NestedValue(f, child) == IF IsPointerKind(f.kind) THEN child.ret ELSE child.ret[1]

(* mutant of PropagateError: the error of the nested Build is wrapped *)
PropagateErrorWrapped(parent, err) ==
    ReturnWith(parent, Errorf("error reading nested config (" \o err.msg \o ")"))

(* ccfg, err := cb.Build(); if err != nil { return err } *)
PropagateError(parent, err) == ReturnWith(parent, err)

(* cb.Build() has returned into fieldLoop: lines 352-369 *)
NestedReturn ==
    /\ Len(stack) >= 2 /\ crashed = ""
    /\ Top.pc = "Return"
    /\ LET child == Top
           rest == SubSeq(stack, 1, Len(stack) - 1)
           parent == rest[Len(rest)]
           f == Types[parent.typ].fields[parent.idx]
           val == NestedValue(f, child)
           set == [parent EXCEPT !.cfg = << [parent.cfg[1] EXCEPT ![f.name] = val] >>]
           ev(e) == [ev |-> e, depth |-> Len(rest), typ |-> parent.typ, field |-> f.name,
                     name |-> "", acc |-> "", prefix |-> parent.prefix,
                     fb |-> parent.PrefixFallback, via |-> "", val |-> "", cause |-> ""]
       IN  IF child.err /= NoErr
              THEN /\ log' = log
                   /\ stack' = SetTop(rest, PropagateError(parent, child.err))
                   /\ UNCHANGED <<env, result, crashed, hookFail, tagIn, tagOut, coIn, coOut>>
           ELSE IF HasSetProps(child)
              THEN IF ~parent.setProps.made
                      THEN /\ log' = log \o <<ev("nestedset"),
                                              [ev("fault") EXCEPT
                                                 !.field = "assignment to entry in nil map"]>>
                           /\ stack' = Raise(SetTop(rest, set),
                                             "assignment to entry in nil map").stack
                           /\ crashed' = Raise(rest, "assignment to entry in nil map").crashed
                           /\ UNCHANGED <<env, result, hookFail, tagIn, tagOut, coIn, coOut>>
                   ELSE /\ log' = Append(log, ev("nestedset"))
                        /\ stack' = SetTop(rest,
                               [set EXCEPT !.setProps = [@ EXCEPT !.keys = @ \cup {f.name}],
                                           !.idx = @ + 1])
                        /\ UNCHANGED <<env, result, crashed, hookFail, tagIn, tagOut, coIn, coOut>>
           ELSE /\ log' = Append(log, ev("noprops"))
                /\ stack' = SetTop(rest, [parent EXCEPT !.idx = @ + 1])
                /\ UNCHANGED <<env, result, crashed, hookFail, tagIn, tagOut, coIn, coOut>>

(* mutant of missingRequired: a field with a default is never missing *)
RECURSIVE missingRequiredUnlessDefault(_, _, _, _)
missingRequiredUnlessDefault(fields, i, tagKey, setKeys) ==
    IF i > Len(fields) THEN << >>
    ELSE LET tag == TagLookup(fields[i], tagKey)
             rest == missingRequiredUnlessDefault(fields, i + 1, tagKey, setKeys)
         IN  IF ~tag.ok THEN rest
             ELSE IF getTagEnvVarName(tag.val) = "-" THEN rest
             ELSE IF getTagAttribute(tag.val, tagAttrRequired).found
                     /\ ~getTagAttribute(tag.val, tagAttrDefault).found
                     /\ fields[i].name \notin setKeys
                THEN <<fields[i].name>> \o rest
             ELSE rest

(* checkRequired's loop: the names it collects in missingRequired *)
RECURSIVE missingRequired(_, _, _, _)
missingRequired(fields, i, tagKey, setKeys) ==
    IF i > Len(fields) THEN << >>
    ELSE LET tag == TagLookup(fields[i], tagKey)
             rest == missingRequired(fields, i + 1, tagKey, setKeys)
         IN  IF ~tag.ok THEN rest
             ELSE IF getTagEnvVarName(tag.val) = "-" THEN rest
             ELSE IF getTagAttribute(tag.val, tagAttrRequired).found
                     /\ fields[i].name \notin setKeys
                THEN <<fields[i].name>> \o rest
             ELSE rest

(* the switch on len(missingRequired) *)
missingError(missing) ==
    IF Len(missing) = 0 THEN NoErr
    ELSE IF Len(missing) = 1
       THEN Errorf("missing required var " \o Quote(missing[1]))
    ELSE Errorf("missing required vars: " \o JoinWith(missing, ","))

checkRequired(f) ==
    missingError(missingRequired(Types[f.typ].fields, 1, f.TagKey, f.setProps.keys))

(* mutant of CheckRequired: the error of checkRequired is dropped *)
CheckRequiredDropped ==
    /\ Running("CheckRequired")
    /\ Continue(Goto(Top), << >>)

CheckRequired ==
    /\ Running("CheckRequired")
    /\ IF checkRequired(Top) /= NoErr
          THEN Continue(ReturnWith(Top, checkRequired(Top)), << >>)
       ELSE Continue(Goto(Top), << >>)

(* the CfgBuildValidate hook, when the configuration has one, and the return *)
PostValidate ==
    /\ Running("PostValidate")
    /\ LET ev == <<Event("validate", "", "")>>
       IN  IF ~Types[Top.typ].validate THEN Continue(Goto(Top), << >>)
           ELSE IF Top.cfg = << >>
              THEN Fault("runtime error: invalid memory address or nil pointer dereference", ev)
           ELSE IF hookFail = "validate"
              THEN Continue(ReturnWith(Top, Errorf("validate failed")), ev)
           ELSE Continue(Goto(Top), ev)

(* the outermost Build returns to its caller *)
Finish ==
    /\ Len(stack) = 1 /\ crashed = ""
    /\ Top.pc = "Return"
    /\ result' = [result EXCEPT !.done = TRUE, !.cfg = Top.ret, !.err = Top.err,
                                !.ran = Top.ran, !.setProps = Top.setProps.keys]
    /\ stack' = << >>
    /\ log' = log
    /\ UNCHANGED <<env, crashed, hookFail, tagIn, tagOut, coIn, coOut>>

-----------------------------------------------------------------------------
(* The callers: Builder.Build on a fresh Builder, InitConfig on an          *)
(* instance the caller supplies, and the Builder of                         *)
(* TestConfigBuilderHandlePanic, marked instantiated with no instance       *)

Entries == {"Build", "InitConfig", "BadState"}

HookFails == {"none", "init", "validate"}

ValsOf(k) ==
    IF k \in JSONKeys THEN JSONVals \cup BadVals
    ELSE IF k \in BadValKeys THEN GoodVals \cup BadVals
    ELSE GoodVals

EnvsFor(root) ==
    {[k \in AllKeys |-> IF k \in RootKeys[root] THEN e[k] ELSE << >>] :
        e \in [RootKeys[root] ->
                 {<< >>} \cup {<<v>> : v \in GoodVals \cup BadVals \cup JSONVals}]}

NoCoercion == [kind |-> "", s |-> << >>, b |-> [ListSeparator |-> "", KeyValueSeparator |-> ""],
               done |-> FALSE]

NoOutcome == [err |-> "", val |-> << >>]

NoTag == [fields |-> << >>, done |-> FALSE]

NoResult == [done |-> FALSE, root |-> "", entry |-> "", throwPanics |-> FALSE,
             PrefixFallback |-> FALSE, fatal |-> FALSE,
             cfg |-> << >>, err |-> NoErr, ran |-> << >>, setProps |-> {}]

Init ==
    /\ \E root \in Roots, entry \in Entries, tp \in BOOLEAN, fb \in BOOLEAN,
          policy \in Policies :
          /\ entry = "InitConfig" => ~tp /\ ~fb
          /\ policy /= DefaultPolicy =>
                root \in PolicyRoots /\ entry = "Build" /\ ~tp /\ hookFail = "none"
          /\ stack = << WithOptions(
                          NewFrame(root,
                                   IF entry = "InitConfig" THEN Supplied(root) ELSE << >>,
                                   entry /= "Build", "", tp, "", fb, 0),
                          policy) >>
          /\ result = [NoResult EXCEPT !.root = root, !.entry = entry,
                                       !.throwPanics = tp, !.PrefixFallback = fb]
          /\ env \in {e \in EnvsFor(root) :
                         \A k \in AllKeys : e[k] /= << >> => e[k][1] \in ValsOf(k)}
    /\ hookFail \in HookFails
    /\ crashed = ""
    /\ log = << >>
    /\ tagIn = NoTag
    /\ tagOut = NoErr
    /\ coIn = NoCoercion
    /\ coOut = NoOutcome

Next ==
    \/ Instantiate
    \/ ValidateTags
    \/ PreInit
    \/ FieldLoop
    \/ NestedReturn
    \/ CheckRequired
    \/ PostValidate
    \/ Finish

Spec == Init /\ [][Next]_vars

-----------------------------------------------------------------------------
(* Tag validation on its own: validateCfgTags applied to a struct of one    *)
(* or two tagged fields, the tag of the first built from a key and up to    *)
(* MaxAttrs attribute segments                                              *)

KeySegs == { << >>, <<"-">>, <<">">>, <<"K">> }

AttrSegs == { <<"required">>, <<"required", "=", "v">>,
              <<"default">>, <<"default", "=", "v">>,
              <<"default", "=", "required", "=", "v">>,
              <<"prefix">>, <<"prefix", "=", "P_">>,
              <<"unmarshalJSON">>, <<"unmarshalJSON", "=", "v">>,
              <<"ninja">>, <<"ninja", "=", "v">>, << >>, <<"=", "v">> }

RECURSIVE SegsUpTo(_)
SegsUpTo(n) ==
    IF n = 0 THEN { << >> }
    ELSE SegsUpTo(n - 1) \cup
         {Append(ss, a) : ss \in {x \in SegsUpTo(n - 1) : Len(x) = n - 1}, a \in AttrSegs}

(* the tag value: the key and the segments, joined by "," *)
RECURSIVE MakeTag(_, _)
MakeTag(key, segs) ==
    IF segs = << >> THEN key ELSE MakeTag(key \o <<",">> \o Head(segs), Tail(segs))

TagFields ==
    {Tagged(n.name, n.first, k.kind, k.elem, MakeTag(key, segs)) :
        n \in {[name |-> "MyField", first |-> "M"], [name |-> "myField", first |-> "m"]},
        k \in {[kind |-> "int", elem |-> ""], [kind |-> "struct", elem |-> "TestGrandConfig"]},
        key \in KeySegs, segs \in SegsUpTo(MaxAttrs)}

(* a second field, declared before or after the first *)
OtherFields ==
    { Untagged("NotSet", "N", "int", ""),
      Tagged("Good", "G", "int", "", <<"G", ",", "required">>),
      Tagged("Bad", "B", "int", "", <<",", "required">>) }

TagInit ==
    /\ \E f \in TagFields :
          \/ tagIn = [fields |-> <<f>>, done |-> FALSE]
          \/ \E o \in OtherFields :
                \/ tagIn = [fields |-> <<f, o>>, done |-> FALSE]
                \/ tagIn = [fields |-> <<o, f>>, done |-> FALSE]
    /\ tagOut = NoErr
    /\ stack = << >>
    /\ env = [k \in AllKeys |-> << >>]
    /\ result = NoResult
    /\ crashed = ""
    /\ log = << >>
    /\ hookFail = "none"
    /\ coIn = NoCoercion
    /\ coOut = NoOutcome

(* InitConfig on an instance of the struct, up to the end of validateCfgTags *)
Validate ==
    /\ ~tagIn.done
    /\ tagIn.fields /= << >>
    /\ tagOut' = validateFrom(tagIn.fields, 1, "", FALSE).err
    /\ tagIn' = [tagIn EXCEPT !.done = TRUE]
    /\ UNCHANGED buildVars
    /\ UNCHANGED coVars

TagNext == Validate

TagSpec == TagInit /\ [][TagNext]_vars

-----------------------------------------------------------------------------
(* Coercion on its own: setFieldValue applied to a field of a list, map or  *)
(* integer type and a string of up to MaxLen characters (MaxIntLen tokens   *)
(* for the integer types), by a Builder with or without its own separators  *)

SeqsUpTo(A, n) == UNION {[1..k -> A] : k \in 0..n}

ListChars == {"a", "b", ",", ";", " "}

MapChars == {"a", ",", ";", ":", "="}

IntToks == {"42", "200", "-129", "9223372036854775808", "x", ",", " "}

(* no two literals side by side: each literal is a number of its own *)
IntStrings ==
    {s \in SeqsUpTo(IntToks, MaxIntLen) :
        \A i \in 1..(Len(s) - 1) :
            ~(s[i] \in DOMAIN IntLitBits /\ s[i + 1] \in DOMAIN IntLitBits)}

IntKinds == {"int8", "int64", "*int8", "[]int8"}

CoercionKinds == IntKinds \cup {"[]string", "map[string]string"}

(* the strings and the Builder options a field of the kind is coerced with *)
InputsOf(kind) ==
    IF kind \in IntKinds THEN IntStrings
    ELSE IF kind = "[]string" THEN SeqsUpTo(ListChars, MaxLen)
    ELSE SeqsUpTo(MapChars, MaxLen)

OptionsOf(kind) ==
    {[ListSeparator |-> ls, KeyValueSeparator |-> kv] :
        ls \in IF kind \in {"[]string", "map[string]string"} THEN {"", ";"} ELSE {""},
        kv \in IF kind = "map[string]string" THEN {"", "="} ELSE {""}}

(* the value the field holds before: one no coercion of the model yields *)
HeldBefore(kind) ==
    CASE kind \in {"int8", "int64"} -> 5
      [] kind = "*int8" -> << 5 >>
      [] kind = "[]int8" -> << 5 >>
      [] kind = "[]string" -> << "held" >>
      [] kind = "map[string]string" -> [k \in {"held"} |-> "held"]

CoerceInit ==
    /\ \E kind \in CoercionKinds :
          \E s \in InputsOf(kind), b \in OptionsOf(kind) :
              /\ coIn = [kind |-> kind, s |-> s, b |-> b, done |-> FALSE]
              /\ coOut = [err |-> "", val |-> HeldBefore(kind)]
    /\ tagIn = NoTag
    /\ tagOut = NoErr
    /\ stack = << >>
    /\ env = [k \in AllKeys |-> << >>]
    /\ result = NoResult
    /\ crashed = ""
    /\ log = << >>
    /\ hookFail = "none"

(* b.setFieldValue(fieldName, value.Field(i), valStr) *)
Coerce ==
    /\ ~coIn.done
    /\ coIn.kind /= ""
    /\ coOut' = setTypedValue(coIn.b, coIn.kind, coOut.val, coIn.s)
    /\ coIn' = [coIn EXCEPT !.done = TRUE]
    /\ UNCHANGED buildVars
    /\ UNCHANGED tagVars

CoerceNext == Coerce

CoerceSpec == CoerceInit /\ [][CoerceNext]_vars

-----------------------------------------------------------------------------
(* Properties of the build lifecycle, checked under Spec *)

IsPrefix(s, t) == Len(s) <= Len(t) /\ s = SubSeq(t, 1, Len(s))

Last(s) == s[Len(s)]

(* C1: every Build passes through the stages in the order Instantiate,      *)
(* ValidateTags, PreInit, ApplyDefaults, ResolveExternal, CheckRequired,    *)
(* PostValidate, each at most once; a Build that holds an error has         *)
(* returned, so no later stage runs; a Build returns without error only     *)
(* after all seven stages; the caller receives the error of the Build.      *)
C1_StagesInOrder ==
    /\ \A i \in 1..Len(stack) :
          /\ stack[i].ran /= << >>
          /\ IsPrefix(stack[i].ran, StageOrder)
          /\ stack[i].pc /= "Return" =>
                stack[i].err = NoErr /\ stack[i].pc = Last(stack[i].ran)
          /\ (stack[i].pc = "Return" /\ stack[i].err = NoErr) =>
                stack[i].ran = StageOrder
    /\ result.done =>
          /\ IsPrefix(result.ran, StageOrder)
          /\ result.err = NoErr => result.ran = StageOrder

(* a Build that failed in CheckRequired, after six stages *)
C1_Witness ==
    /\ result.done
    /\ result.err /= NoErr
    /\ result.ran = SubSeq(StageOrder, 1, 6)

(* the string s coerced to the type of field f is the value v *)
HoldsCoerced(f, v, s) ==
    CASE f.kind = "int" -> s \in DOMAIN IntLits /\ v = IntLits[s]
      [] f.kind = "ptrint" -> s \in DOMAIN IntLits /\ v = << IntLits[s] >>
      [] f.kind = "string" -> v = s
      [] OTHER -> FALSE

(* the fields of a frame's type that are tagged with an external key and *)
(* are coerced by setFieldValue, not decoded with unmarshalJSON          *)
KeyedFields(fr) ==
    {f \in {Types[fr.typ].fields[i] : i \in 1..Len(Types[fr.typ].fields)} :
        /\ TagLookup(f, fr.TagKey).ok
        /\ getTagEnvVarName(TagLookup(f, fr.TagKey).val) \notin {"-", ">"}
        /\ ~getTagAttribute(TagLookup(f, fr.TagKey).val, tagAttrUnmarshalJSON).found}

(* external value, else default, else the value before resolution *)
HoldsBySource(fr, f) ==
    LET tag == TagLookup(f, fr.TagKey).val
        bare == getTagEnvVarName(tag)
        key == fr.prefix \o bare
        def == getTagAttribute(tag, tagAttrDefault)
        v == fr.cfg[1][f.name]
    IN  IF key \in DOMAIN env /\ env[key] /= << >> THEN HoldsCoerced(f, v, env[key][1])
        ELSE IF fr.PrefixFallback /\ bare \in DOMAIN env /\ env[bare] /= << >>
           THEN HoldsCoerced(f, v, env[bare][1])
        ELSE IF def.found THEN HoldsCoerced(f, v, def.val)
        ELSE v = fr.pre[1][f.name]

Succeeded(fr) == fr.pc = "Return" /\ fr.err = NoErr /\ fr.cfg /= << >>

RECURSIVE MissingKeys(_, _, _, _)
MissingKeys(fields, i, tagKey, setKeys) ==
    IF i > Len(fields) THEN << >>
    ELSE LET tag == TagLookup(fields[i], tagKey)
             rest == MissingKeys(fields, i + 1, tagKey, setKeys)
         IN  IF /\ tag.ok
                /\ getTagEnvVarName(tag.val) /= "-"
                /\ getTagAttribute(tag.val, tagAttrRequired).found
                /\ fields[i].name \notin setKeys
             THEN <<getTagEnvVarName(tag.val)>> \o rest
             ELSE rest

(* C3: a Build whose only unset required field has the key K fails in       *)
(* CheckRequired with the error: missing required var "K".                  *)
C3_MissingNamesKey ==
    \A i \in 1..Len(stack) :
        LET fr == stack[i]
            missing == MissingKeys(Types[fr.typ].fields, 1, fr.TagKey, fr.setProps.keys)
        IN  (fr.pc = "Return" /\ Last(fr.ran) = "CheckRequired" /\ Len(missing) = 1) =>
                fr.err = Errorf("missing required var " \o Quote(missing[1]))

Faults == {i \in 1..Len(log) : log[i].ev = "fault"}

HookOrAssign == {"init", "validate", "default", "env", "nestedset"}

(* C5 as stated: when Build fails with a tag syntax error, of the type      *)
(* built or of a nested type, no hook has run and no field was assigned.    *)
C5_AsStated ==
    (result.done /\ result.err.kind = "TagSyntaxError") =>
        \A i \in 1..Len(log) : log[i].ev \notin HookOrAssign

(* C5: when a Build fails in its own ValidateTags with a tag syntax error,  *)
(* then since that Build began no hook has run and no field was assigned    *)
(* from a default or an external value.                                     *)
C5_TagErrorBeforeEffects ==
    \A i \in 1..Len(stack) :
        (/\ stack[i].pc = "Return"
         /\ stack[i].err.kind = "TagSyntaxError"
         /\ Last(stack[i].ran) = "ValidateTags") =>
            \A j \in (stack[i].logStart + 1)..Len(log) : log[j].ev \notin HookOrAssign

(* BadTagConfig, which has an init hook and a default, fails on its tag *)
C5_Witness ==
    /\ result.done
    /\ result.root = "BadTagConfig"
    /\ result.err.kind = "TagSyntaxError"
    /\ result.err.FieldName = "NoEnvVarName"
    /\ log = << >>

(* C9: every lookup of a field with key K, in a Build reached through       *)
(* nested fields with prefixes P1, P2, ..., uses the key P1 P2 ... K.       *)
C9_PrefixesAccumulate ==
    \A i \in 1..Len(log) :
        log[i].ev \in {"miss", "env", "badenv"} =>
            log[i].field = log[i].acc \o log[i].name

(* C10: when a nested Build returns without error and with no field set,    *)
(* the return leaves the parent's instance as it was: the nested field      *)
(* keeps the value it had before resolution, a nil pointer stays nil.       *)
C10_NoPropsNoAssign ==
    [][ (/\ Len(stack) >= 2
         /\ crashed = ""
         /\ Top.pc = "Return"
         /\ Top.err = NoErr
         /\ Top.setProps.keys = {}) =>
            /\ Len(stack') = Len(stack) - 1
            /\ stack'[Len(stack')].cfg = stack[Len(stack) - 1].cfg
            /\ stack'[Len(stack')].setProps = stack[Len(stack) - 1].setProps ]_vars

(* TestParentConfig with no key present: MyChild keeps the value the init   *)
(* hook gave it and MyPointerChild stays nil                                *)
C10_Witness ==
    /\ result.done
    /\ result.root = "TestParentConfig"
    /\ result.err = NoErr
    /\ \E i \in 1..Len(log) : log[i].ev = "noprops" /\ log[i].field = "MyChild"
    /\ \E i \in 1..Len(log) : log[i].ev = "noprops" /\ log[i].field = "MyPointerChild"
    /\ result.cfg[1].MyChild.MyVal = 7
    /\ result.cfg[1].MyPointerChild = << >>

-----------------------------------------------------------------------------
(* Properties of tag validation, checked under TagSpec *)

TagOf(f) == TagLookup(f, "").val

IsTagged(f) == TagLookup(f, "").ok

HasAttr(f, a) == getTagAttribute(TagOf(f), a).found

(* the attribute names of a tag that are neither known nor empty *)
UnknownNames(f) ==
    {n \in {getTagAttributeNames(TagOf(f))[i] : i \in 1..Len(getTagAttributeNames(TagOf(f)))} :
        n /= "" /\ \A k \in 1..Len(allTagAttr) : n /= allTagAttr[k]}

(* the rules of validateCfgTags, numbered in the order of the list, that   *)
(* the tag of a field violates                                             *)
ViolatedRules(f) ==
    {k \in 1..8 :
        CASE k = 1 -> f.first \in LowerLetters
          [] k = 2 -> getTagEnvVarName(TagOf(f)) = ""
          [] k = 3 -> getTagEnvVarName(TagOf(f)) = ">" /\ HasAttr(f, tagAttrDefault)
          [] k = 4 -> getTagEnvVarName(TagOf(f)) = "-" /\ HasAttr(f, tagAttrRequired)
          [] k = 5 -> HasAttr(f, tagAttrUnmarshalJSON) /\ ~JSONProbeOK(f.kind)
          [] k = 6 -> getTagEnvVarName(TagOf(f)) /= ">" /\ HasAttr(f, tagAttrPrefix)
          [] k = 7 -> UnknownNames(f) /= {}
          [] k = 8 -> \E a \in {allTagAttr[i] : i \in 1..Len(allTagAttr)} :
                         /\ HasAttr(f, a)
                         /\ hasValue(a) /= ContainsAttrEq(TagOf(f), a)}

(* the messages with which a rule reports its violation *)
RuleMessages(f, k) ==
    CASE k = 1 -> {"non-public fields may not have the tag set"}
      [] k = 2 -> {"tag does not have the name attribute set"}
      [] k = 3 -> {"the \"default\" attribute is not allowed on \">\" nested config fields"}
      [] k = 4 -> {"the \"required\" attribute is not allowed on \"-\" fields"}
      [] k = 5 -> {"field type does not support \"unmarshalJSON\" tag attribute"}
      [] k = 6 -> {"the \"prefix\" attribute is only allowed on \">\" nested config fields"}
      [] k = 7 -> {"tag value contains non-existent attribute " \o Quote(n) :
                      n \in UnknownNames(f)}
      [] k = 8 -> {"the " \o Quote(allTagAttr[i]) \o " attribute requires a value" :
                      i \in 1..Len(allTagAttr)}
                  \cup {"the " \o Quote(allTagAttr[i]) \o " attribute may not have a value" :
                      i \in 1..Len(allTagAttr)}

Min(S) == CHOOSE k \in S : \A j \in S : k <= j

(* the positions of the tagged fields whose tag violates a rule *)
BadFields == {i \in 1..Len(tagIn.fields) :
                 IsTagged(tagIn.fields[i]) /\ ViolatedRules(tagIn.fields[i]) /= {}}

(* C6: validation reports the first violation only: the error is for the    *)
(* first field in declaration order whose tag violates a rule, it is that   *)
(* of the earliest rule, in the order 1 to 8, which that tag violates, and  *)
(* it carries the tag key name, the raw tag value and the field name; when  *)
(* no tag violates a rule there is no error.                                *)
C6_FirstViolation ==
    tagIn.done =>
        IF BadFields = {} THEN tagOut = NoErr
        ELSE LET f == tagIn.fields[Min(BadFields)]
             IN  /\ tagOut.kind = "TagSyntaxError"
                 /\ tagOut.msg \in RuleMessages(f, Min(ViolatedRules(f)))
                 /\ tagOut.TagKey = DefaultTagKey
                 /\ tagOut.TagValue = Join(TagOf(f))
                 /\ tagOut.FieldName = f.name

(* two fields with bad tags, the first violating rules 7 and 8: the error   *)
(* is that of rule 7 on the first field                                     *)
C6_Witness ==
    /\ tagIn.done
    /\ Len(tagIn.fields) = 2
    /\ BadFields = {1, 2}
    /\ ViolatedRules(tagIn.fields[1]) = {7, 8}
    /\ tagOut.FieldName = tagIn.fields[1].name
    /\ tagOut.msg = "tag value contains non-existent attribute \"ninja\""

(* the names of the segments after the key *)
SegmentNames(f) ==
    {getTagAttributeNames(TagOf(f))[i] : i \in 1..Len(getTagAttributeNames(TagOf(f)))}

KnownNames == {"required", "default", "prefix", "unmarshalJSON"}

(* C7 as stated: a tagged public field whose tag has a segment after the    *)
(* key with a name outside the four attribute names is rejected.            *)
C7_AsStated ==
    tagIn.done =>
        \A i \in 1..Len(tagIn.fields) :
            (/\ IsTagged(tagIn.fields[i])
             /\ isPublicField(tagIn.fields[i])
             /\ SegmentNames(tagIn.fields[i]) \ KnownNames /= {}) =>
                tagOut.kind = "TagSyntaxError"

(* C7: a tagged public field, one with key "-" included, whose tag has a    *)
(* segment after the key with a non-empty name outside the four attribute   *)
(* names is rejected with a tag syntax error.                               *)
C7_UnknownAttrRejected ==
    tagIn.done =>
        \A i \in 1..Len(tagIn.fields) :
            (/\ IsTagged(tagIn.fields[i])
             /\ isPublicField(tagIn.fields[i])
             /\ SegmentNames(tagIn.fields[i]) \ (KnownNames \cup {""}) /= {}) =>
                tagOut.kind = "TagSyntaxError"

(* a public field with key "-" and the segment ninja is rejected by rule 7 *)
C7_Witness ==
    /\ tagIn.done
    /\ Len(tagIn.fields) = 1
    /\ TagOf(tagIn.fields[1]) = <<"-", ",", "ninja">>
    /\ isPublicField(tagIn.fields[1])
    /\ tagOut.kind = "TagSyntaxError"
    /\ tagOut.msg = "tag value contains non-existent attribute \"ninja\""

(* some default or prefix segment has no "=", or some required or          *)
(* unmarshalJSON segment has one                                           *)
SegmentArityWrong(f) ==
    LET segs == SplitOn(TagOf(f), ",")
    IN  \E i \in 2..Len(segs) :
            LET name == Join(SplitOn(segs[i], "=")[1])
                eq == \E j \in 1..Len(segs[i]) : segs[i][j] = "="
            IN  \/ name \in {"default", "prefix"} /\ ~eq
                \/ name \in {"required", "unmarshalJSON"} /\ eq

(* C8: a tag that passes rules 1 to 7 is rejected exactly when some         *)
(* default or prefix segment lacks "=" or some required or unmarshalJSON    *)
(* segment has "=".                                                         *)
C8_ArityPerSegment ==
    (tagIn.done /\ Len(tagIn.fields) = 1
       /\ ViolatedRules(tagIn.fields[1]) \cap (1..7) = {}) =>
        (tagOut /= NoErr <=> SegmentArityWrong(tagIn.fields[1]))

-----------------------------------------------------------------------------
(* Properties settled after the first ten *)

Lookups == {i \in 1..Len(log) : log[i].ev \in {"miss", "env", "badenv"}}

IsSet(k) == k \in DOMAIN env /\ env[k] /= << >>

(* C11: the lookup of a field with key K in a Build with prefix P gives     *)
(* the value of P+K when P+K is set; otherwise, exactly when PrefixFallback *)
(* is enabled, the value of K when K is set; otherwise a miss.  With        *)
(* PrefixFallback disabled a Build with a prefix never takes the bare key.  *)
C11_PrefixFallback ==
    \A i \in Lookups :
        LET e == log[i]
        IN  /\ IF IsSet(e.prefix \o e.name)
                  THEN e.ev /= "miss" /\ e.via = "prefixed"
                       /\ e.val = env[e.prefix \o e.name][1]
               ELSE IF e.fb /\ IsSet(e.name)
                  THEN e.ev /= "miss" /\ e.via = "bare" /\ e.val = env[e.name][1]
               ELSE e.ev = "miss"
            /\ (~e.fb /\ e.prefix /= "") => e.via /= "bare"

(* TestParentConfig built with PrefixFallback: P_MY_VAL is not set, MY_VAL  *)
(* is, and the child's MyVal takes the bare value                           *)
C11_Witness ==
    /\ result.done
    /\ result.err = NoErr
    /\ result.root = "TestParentConfig"
    /\ result.PrefixFallback
    /\ ~IsSet("P_MY_VAL")
    /\ IsSet("MY_VAL")
    /\ \E i \in Lookups : log[i].via = "bare" /\ log[i].field = "P_MY_VAL"
    /\ result.cfg[1].MyChild.MyVal = 42

(* the entries of log made by the Build of frame i since it began *)
EventsOf(i, kinds) ==
    {j \in (stack[i].logStart + 1)..Len(log) : log[j].depth = i /\ log[j].ev \in kinds}

(* C12: a Build of a type with the hooks calls CfgBuildInit exactly once,   *)
(* after instantiation and before any field is assigned from a default, an  *)
(* external value or a nested Build, and calls CfgBuildValidate exactly     *)
(* once, only after all earlier stages succeeded with no required field     *)
(* missing; a Build that failed earlier never calls CfgBuildValidate.       *)
C12_HooksOnce ==
    \A i \in 1..Len(stack) :
        LET fr == stack[i]
            inits == EventsOf(i, {"init"})
            vals == EventsOf(i, {"validate"})
            passed(stage) == \E k \in 1..Len(fr.ran) : fr.ran[k] = stage /\ fr.pc /= stage
        IN  /\ Cardinality(inits) <= 1
            /\ Cardinality(vals) <= 1
            /\ (inits /= {}) => passed("Instantiate") /\ Types[fr.typ].init.has
            /\ (Types[fr.typ].init.has /\ passed("PreInit")) => inits /= {}
            /\ \A j \in EventsOf(i, {"default", "env", "nestedset"}) :
                  Types[fr.typ].init.has => \E k \in inits : k < j
            /\ (vals /= {}) =>
                  /\ Types[fr.typ].validate
                  /\ fr.ran = StageOrder
                  /\ MissingKeys(Types[fr.typ].fields, 1, fr.TagKey, fr.setProps.keys) = << >>
            /\ (Types[fr.typ].validate /\ fr.pc = "Return" /\ fr.err = NoErr) => vals /= {}

(* TestConfig built with success: init, then the assignments, then validate *)
C12_Witness ==
    /\ Len(stack) = 1
    /\ Top.typ = "TestConfig"
    /\ Top.pc = "Return"
    /\ Top.err = NoErr
    /\ log[1].ev = "init"
    /\ log[Len(log)].ev = "validate"
    /\ EventsOf(1, {"default", "env"}) /= {}

(* the fields of a type that carry no tag *)
UntaggedNames(t) == {n \in FieldNames(t) : ~TagLookup(FieldAt(t, n), "").ok}

C14_SourceUnchanged == [][env' = env]_vars

(* a Build with a nested Build that read a value which is still there *)
C14_Witness ==
    /\ result.done
    /\ result.root = "TestParentConfig"
    /\ \E i \in Lookups : log[i].ev = "env" /\ log[i].depth = 2
                          /\ env[log[i].field] = <<log[i].val>>
    /\ \E i \in Lookups : log[i].ev = "miss"

(* the fields of a type whose key is "-" *)
DashFields(t) ==
    {f \in {Types[t].fields[i] : i \in 1..Len(Types[t].fields)} :
        TagLookup(f, "").ok /\ getTagEnvVarName(TagLookup(f, "").val) = "-"}

(* C15: a field with key "-" is never looked up in the external source,     *)
(* whatever entries named "-" or prefix+"-" the source has, and is never    *)
(* built as a nested configuration; a type in which such a field is         *)
(* required never gets to CheckRequired, so the field is never reported     *)
(* missing; once ApplyDefaults is over the field holds its coerced default  *)
(* when the tag declares one, and else the value it had before.             *)
C15_DashFields ==
    /\ \A i \in Lookups : log[i].name /= "-"
    /\ \A i \in 1..Len(log) :
          log[i].ev = "nested" =>
              FieldAt(log[i].typ, log[i].field) \notin DashFields(log[i].typ)
    /\ \A i \in 1..Len(stack) :
          LET fr == stack[i]
              after == \/ fr.pc \in {"ResolveExternal", "CheckRequired", "PostValidate"}
                       \/ fr.pc = "Return" /\ fr.err = NoErr
          IN  \A f \in DashFields(fr.typ) :
                 /\ HasAttr(f, tagAttrRequired) =>
                       (fr.pc = "Return" => Last(fr.ran) \in {"Instantiate", "ValidateTags"})
                 /\ after =>
                       IF HasAttr(f, tagAttrDefault)
                       THEN HoldsCoerced(f, fr.cfg[1][f.name],
                                         getTagAttribute(TagOf(f), tagAttrDefault).val)
                       ELSE fr.cfg[1][f.name] = fr.pre[1][f.name]

(* TestOddConfig built while the source has "-" and "ALT_-": DefaultOnly    *)
(* is 7 and the nested Dash is 1                                            *)
C15_Witness ==
    /\ result.done
    /\ result.err = NoErr
    /\ result.root = "TestOddConfig"
    /\ env["-"] = <<"42">>
    /\ env["ALT_-"] = <<"42">>
    /\ result.cfg[1].DefaultOnly = 7
    /\ result.cfg[1].AltNested /= << >>
    /\ result.cfg[1].AltNested[1].Dash = 1
    /\ result.cfg[1].AltNested[1].MyVal = 42

(* the error the claim gives a failed coercion: the key with the prefix of  *)
(* the Build and the underlying message                                     *)
CoercionError(e) ==
    Errorf((IF e.ev = "badenv" THEN "error reading "
            ELSE "error setting default value for ")
           \o Quote(e.field) \o " (" \o e.cause \o ")")

(* C16: when the coercion of an external value fails, for a field of any    *)
(* kind and also for one decoded with unmarshalJSON, the Build fails with   *)
(* error reading "<prefix+key>" (<underlying message>); when the coercion   *)
(* of a default fails, with error setting default value for ...             *)
C16_CoercionErrorWrapped ==
    (log /= << >> /\ log[Len(log)].ev \in {"badenv", "baddefault"}) =>
        /\ \A i \in 1..Len(stack) :
              stack[i].pc = "Return" => stack[i].err = CoercionError(log[Len(log)])
        /\ result.done => result.err = CoercionError(log[Len(log)])

(* the message for a list of missing keys *)
MissingMessage(keys) ==
    IF Len(keys) = 0 THEN NoErr
    ELSE IF Len(keys) = 1 THEN Errorf("missing required var " \o Quote(keys[1]))
    ELSE Errorf("missing required vars: " \o JoinWith(keys, ","))

(* C17: the outcome of CheckRequired is given by the list of the missing    *)
(* keys in declaration order: no error for none, missing required var "k"   *)
(* for one, missing required vars: k1,k2,... for more; the error comes      *)
(* only once defaults, external values and nested Builds are through.       *)
C17_MissingMessage ==
    \A i \in 1..Len(stack) :
        LET fr == stack[i]
            keys == MissingKeys(Types[fr.typ].fields, 1, fr.TagKey, fr.setProps.keys)
        IN  /\ (fr.pc = "Return" /\ Last(fr.ran) = "CheckRequired") =>
                  fr.err = MissingMessage(keys) /\ keys /= << >>
            /\ fr.pc = "PostValidate" => keys = << >>

(* C18: when a nested Build returns an error, the parent Build returns     *)
(* with that very error: the return of the nested Build takes the parent    *)
(* to its own return, with no further field resolved, no further stage run  *)
(* and nothing more assigned or recorded.                                   *)
C18_NestedErrorPropagates ==
    [][ (/\ Len(stack) >= 2
         /\ crashed = ""
         /\ Top.pc = "Return"
         /\ Top.err /= NoErr) =>
            /\ Len(stack') = Len(stack) - 1
            /\ stack'[Len(stack')].pc = "Return"
            /\ stack'[Len(stack')].err = Top.err
            /\ stack'[Len(stack')].idx = stack[Len(stack) - 1].idx
            /\ stack'[Len(stack')].ran = stack[Len(stack) - 1].ran
            /\ stack'[Len(stack')].cfg = stack[Len(stack) - 1].cfg
            /\ stack'[Len(stack')].setProps = stack[Len(stack) - 1].setProps
            /\ log' = log ]_vars

(* TestOddConfig, which has no hook, fails with the error of the validate   *)
(* hook of its nested AltNested, in ResolveExternal                         *)
C18_Witness ==
    /\ result.done
    /\ result.root = "TestOddConfig"
    /\ result.err = Errorf("validate failed")
    /\ result.ran = SubSeq(StageOrder, 1, 5)
    /\ log[Len(log)].ev = "validate"
    /\ log[Len(log)].depth = 2

(* C19: a fault raised in a nested Build is not caught by the nested Build: *)
(* no nested frame ever holds the error made from a fault, and a fault      *)
(* raised under a Builder with throwPanics set leaves Build as a fault.     *)
C19_NestedFaultsNotCaught ==
    /\ \A i \in 2..Len(stack) : \A j \in Faults :
          stack[i].err /= Errorf("builder panic:  " \o log[j].field)
    /\ (result.throwPanics /\ Faults /= {}) => crashed /= ""

(* C20: no Build, of any type, one with a nested pointer field of its own   *)
(* type included, ends by exhausting the stack with nested Build calls:     *)
(* the nesting stays within the room the stack has.                         *)
C20_BuildReturns ==
    /\ ~result.fatal
    /\ \A i \in 1..Len(log) : log[i].ev /= "overflow"

-----------------------------------------------------------------------------
(* Properties settled after the first twenty *)

(* a field at the depth of the top frame or below it was given a value of   *)
(* the external source since the top frame began                            *)
ExternalHitBelow ==
    \E j \in (Top.logStart + 1)..Len(log) :
        log[j].ev = "env" /\ log[j].depth >= Len(stack)

(* C21: when a nested Build returns without error, its result is assigned   *)
(* to the parent's field, and the field recorded as set, if and only if a   *)
(* field of the nested Build or of a Build nested in it took a value of the *)
(* external source; defaults and the init hook's values alone leave the     *)
(* parent's instance as it was.                                             *)
C21_AssignedIffExternal ==
    [][ (/\ Len(stack) >= 2
         /\ crashed = ""
         /\ Top.pc = "Return"
         /\ Top.err = NoErr) =>
            LET parent == stack[Len(stack) - 1]
                f == Types[parent.typ].fields[parent.idx]
                after == stack'[Len(stack')]
            IN  /\ Len(stack') = Len(stack) - 1
                /\ IF ExternalHitBelow
                   THEN /\ after.cfg[1][f.name] =
                              (IF IsPointerKind(f.kind) THEN Top.ret ELSE Top.ret[1])
                        /\ f.name \in after.setProps.keys
                   ELSE /\ after.cfg = parent.cfg
                        /\ after.setProps = parent.setProps ]_vars

(* TestOddConfig with no ALT_MY_VAL: the nested Build gave MyVal the init   *)
(* hook's 7 and Dash its default 1, and AltNested stays nil                 *)
C21_Witness ==
    /\ result.done
    /\ result.err = NoErr
    /\ result.root = "TestOddConfig"
    /\ \E i \in 1..Len(log) : log[i].ev = "init" /\ log[i].depth = 2
    /\ \E i \in 1..Len(log) : log[i].ev = "default" /\ log[i].depth = 2
    /\ \E i \in 1..Len(log) : log[i].ev = "noprops" /\ log[i].field = "AltNested"
    /\ result.cfg[1].AltNested = << >>


(* the field was given a value of the external source, or a nested Build's  *)
(* result, in the Build of the frame at depth i                             *)
TookExternal(i, f) ==
    LET bare == getTagEnvVarName(TagLookup(f, stack[i].TagKey).val)
    IN  \E j \in (stack[i].logStart + 1)..Len(log) :
           /\ log[j].depth = i
           /\ IF bare = ">"
              THEN log[j].ev = "nestedset" /\ log[j].field = f.name
              ELSE log[j].ev = "env" /\ log[j].name = bare

(* the fields tagged both required and default=... *)
RequiredWithDefault(t) ==
    {f \in {Types[t].fields[i] : i \in 1..Len(Types[t].fields)} :
        /\ TagLookup(f, "").ok
        /\ getTagEnvVarName(TagOf(f)) /= "-"
        /\ HasAttr(f, tagAttrRequired)
        /\ HasAttr(f, tagAttrDefault)}

(* the source has a value for the field: prefix+key, or with the fallback   *)
(* policy the bare key                                                      *)
HasExternal(fr, f) ==
    \/ IsSet(fr.prefix \o getTagEnvVarName(TagOf(f)))
    \/ fr.PrefixFallback /\ IsSet(getTagEnvVarName(TagOf(f)))

(* C22: the fields a Build records as set are fields that took a value of   *)
(* the external source in that Build, or nested fields whose Build recorded *)
(* one; none is recorded for its default.  So a Build that gets as far as   *)
(* CheckRequired with a field tagged required and default=... for which the *)
(* source has no value ends there with a missing-required error that names  *)
(* the field, while the field holds its default.                            *)
C22_DefaultNotRequired ==
    \A i \in 1..Len(stack) :
        LET fr == stack[i]
        IN  /\ \A n \in fr.setProps.keys : TookExternal(i, FieldAt(fr.typ, n))
            /\ \A f \in RequiredWithDefault(fr.typ) :
                  (/\ ~HasExternal(fr, f)
                   /\ \/ fr.pc = "PostValidate"
                      \/ fr.pc = "Return" /\ Last(fr.ran) \in {"CheckRequired", "PostValidate"}) =>
                        /\ fr.pc = "Return"
                        /\ Last(fr.ran) = "CheckRequired"
                        /\ fr.err \in {Errorf("missing required var " \o Quote(f.name)),
                                       Errorf("missing required vars: " \o f.name)}
                        /\ f.name \notin fr.setProps.keys
                        /\ HoldsCoerced(f, fr.cfg[1][f.name],
                                        getTagAttribute(TagOf(f), tagAttrDefault).val)

(* RequiredDefaultConfig built with no PORT: Port holds the default 7 and   *)
(* the Build fails for the missing Port                                     *)
C22_Witness ==
    /\ result.done
    /\ result.root = "RequiredDefaultConfig"
    /\ env["PORT"] = << >>
    /\ env["MY_INT"] = <<"42">>
    /\ result.setProps = {"MyInt"}
    /\ result.cfg[1].Port = 7
    /\ result.err = Errorf("missing required var \"Port\"")
    /\ \E i \in 1..Len(log) : log[i].ev = "default" /\ log[i].name = "PORT"


(* the string the external source has for the field *)
ExternalString(fr, f) ==
    LET bare == getTagEnvVarName(TagOf(f))
    IN  IF IsSet(fr.prefix \o bare) THEN env[fr.prefix \o bare][1] ELSE env[bare][1]

(* C23: every field a Build records as set holds a value coerced from the   *)
(* string the external source has for it: an int or a string the coerced    *)
(* value, a pointer a non-nil pointer to it, whatever type it points to.    *)
C23_SetMeansAssigned ==
    \A i \in 1..Len(stack) :
        LET fr == stack[i]
        IN  \A f \in KeyedFields(fr) :
               (f.name \in fr.setProps.keys /\ fr.cfg /= << >>) =>
                   /\ HasExternal(fr, f)
                   /\ IF f.kind = "ptrstruct"
                      THEN fr.cfg[1][f.name] /= << >>
                      ELSE HoldsCoerced(f, fr.cfg[1][f.name], ExternalString(fr, f))


(* the coercion of the string s into field f fails *)
CoercionFails(f, s) ==
    IF HasAttr(f, tagAttrUnmarshalJSON)
    THEN jsonUnmarshal(f, Zero(f.kind, f.elem), s).err /= ""
    ELSE setFieldValue(f, Zero(f.kind, f.elem), s).err /= ""

(* the field declares a default literal that cannot be coerced *)
BadDefault(f) ==
    /\ IsTagged(f)
    /\ getTagEnvVarName(TagOf(f)) /= ">"
    /\ HasAttr(f, tagAttrDefault)
    /\ CoercionFails(f, getTagAttribute(TagOf(f), tagAttrDefault).val)

(* the source has a value for the field that cannot be coerced *)
BadExternal(fr, f) ==
    /\ IsTagged(f)
    /\ getTagEnvVarName(TagOf(f)) \notin {"-", ">"}
    /\ HasExternal(fr, f)
    /\ CoercionFails(f, ExternalString(fr, f))

(* some field of the type, or of a type nested in it to depth d, has a     *)
(* default or an external value that cannot be coerced                     *)
RECURSIVE BadCoercionIn(_, _, _, _)
BadCoercionIn(t, prefix, fb, d) ==
    /\ d > 0
    /\ Types[t].struct
    /\ \E g \in 1..Len(Types[t].fields) :
          LET f == Types[t].fields[g]
          IN  /\ IsTagged(f)
              /\ IF getTagEnvVarName(TagOf(f)) = ">"
                 THEN BadCoercionIn(BaseType(f), getTagAttribute(TagOf(f), tagAttrPrefix).val,
                                    fb, d - 1)
                 ELSE \/ BadDefault(f)
                      \/ BadExternal([prefix |-> prefix, PrefixFallback |-> fb], f)

AllFieldNames == UNION {FieldNames(t) : t \in TypeNames}

(* the errors checkRequired can return for one or two missing fields *)
MissingErrors ==
    {Errorf("missing required var " \o Quote(n)) : n \in AllFieldNames}
    \cup {Errorf("missing required vars: " \o a \o "," \o b) :
             a \in AllFieldNames, b \in AllFieldNames}

(* C24 as stated: a Build returns a missing-required error only when no     *)
(* field of its type or of the types nested in it has a default or an       *)
(* external value whose coercion fails: any coercion error comes first.     *)
C24_AsStated ==
    (result.done /\ result.err \in MissingErrors) =>
        ~BadCoercionIn(result.root, "", result.PrefixFallback, MaxDepth)

(* C24: a Build that fails in ApplyDefaults fails on the first field, in    *)
(* declaration order, whose default cannot be coerced; one that fails in    *)
(* ResolveExternal has no such default, and no field declared before the    *)
(* failing one has an external value that cannot be coerced, the failing    *)
(* field being either a field with such a value or a nested field whose     *)
(* Build returned an error of any stage, a missing-required error included; *)
(* one that fails in CheckRequired or later has no field of its own type    *)
(* with a default or an external value that cannot be coerced.              *)
C24_EarliestError ==
    \A i \in 1..Len(stack) :
        LET fr == stack[i]
            fields == Types[fr.typ].fields
            failed == fr.pc = "Return" /\ fr.err /= NoErr /\ Types[fr.typ].struct
        IN  /\ (failed /\ Last(fr.ran) = "ApplyDefaults") =>
                  /\ \A g \in 1..(fr.idx - 1) : ~BadDefault(fields[g])
                  /\ fr.cfg /= << >> =>
                        /\ BadDefault(fields[fr.idx])
                        /\ log[Len(log)].ev = "baddefault"
                        /\ log[Len(log)].name = getTagEnvVarName(TagOf(fields[fr.idx]))
                        /\ fr.err \in {Errorf(log[Len(log)].cause), CoercionError(log[Len(log)])}
            /\ (failed /\ Last(fr.ran) = "ResolveExternal") =>
                  /\ \A g \in 1..Len(fields) : ~BadDefault(fields[g])
                  /\ \A g \in 1..(fr.idx - 1) : ~BadExternal(fr, fields[g])
                  /\ (fr.cfg /= << >> /\ getTagEnvVarName(TagOf(fields[fr.idx])) /= ">") =>
                        /\ BadExternal(fr, fields[fr.idx])
                        /\ fr.err \in {Errorf(log[Len(log)].cause), CoercionError(log[Len(log)])}
            /\ (failed /\ Last(fr.ran) \in {"CheckRequired", "PostValidate"}) =>
                  \A g \in 1..Len(fields) :
                      ~BadDefault(fields[g]) /\ ~BadExternal(fr, fields[g])

(* BadDefaultLateConfig while MY_INT has a value that cannot be coerced:    *)
(* the error is the one of the default of the later field                   *)
C24_Witness ==
    /\ result.done
    /\ result.root = "BadDefaultLateConfig"
    /\ env["MY_INT"] = <<"forty-two">>
    /\ result.ran = SubSeq(StageOrder, 1, 4)
    /\ result.err = Errorf("error setting default value for \"MY_VAL\" ("
                           \o ParseInt("forty-two").err \o ")")


(* C25: a nested Build has the options of the Build that made it: the same *)
(* ListSeparator, KeyValueSeparator, TagKey, Uint8Lists and PrefixFallback. *)
C25_PolicyInherited ==
    \A i \in 2..Len(stack) :
        /\ stack[i].ListSeparator = stack[i - 1].ListSeparator
        /\ stack[i].KeyValueSeparator = stack[i - 1].KeyValueSeparator
        /\ stack[i].TagKey = stack[i - 1].TagKey
        /\ stack[i].Uint8Lists = stack[i - 1].Uint8Lists
        /\ stack[i].PrefixFallback = stack[i - 1].PrefixFallback

(* AltTagConfig built with the tag key "alt", the separators ";" and "="    *)
(* and Uint8Lists: the nested Build reads its tags under "alt" too and      *)
(* takes G from A_G                                                         *)
C25_Witness ==
    /\ Len(stack) = 2
    /\ stack[1].typ = "AltTagConfig"
    /\ stack[2].TagKey = "alt"
    /\ stack[2].ListSeparator = ";"
    /\ stack[2].KeyValueSeparator = "="
    /\ stack[2].Uint8Lists
    /\ stack[2].PrefixFallback
    /\ stack[2].prefix = "A_"
    /\ \E i \in Lookups : log[i].ev = "env" /\ log[i].depth = 2 /\ log[i].field = "A_G"


(* the names of the fields of a type that carry no tag under the tag key *)
NoTagUnder(t, tagKey) ==
    {n \in FieldNames(t) : getTagKey(tagKey) \notin DOMAIN FieldAt(t, n).tags}

(* the instance the Build of the frame at depth i began with: the one the  *)
(* caller supplied to InitConfig, or a new one                             *)
InitialCfg(i) ==
    IF i = 1 /\ result.entry = "InitConfig" THEN Supplied(result.root)
    ELSE NewOf(stack[i].typ)

(* C26: a field with no tag under the tag key of the Build holds, as long   *)
(* as the Build runs and when it returns, the value the instance began      *)
(* with, unless the init hook of the type assigns that field: a struct is   *)
(* not built as a nested configuration, a nil pointer stays nil, and no     *)
(* entry of the external source is looked up for it.                        *)
C26_UntaggedUnchanged ==
    /\ \A i \in 1..Len(stack) :
          LET fr == stack[i]
              h == Types[fr.typ].init
          IN  fr.cfg /= << >> =>
                 \A n \in NoTagUnder(fr.typ, fr.TagKey) :
                     (h.has => h.field /= n) => fr.cfg[1][n] = InitialCfg(i)[1][n]
    /\ stack /= << >> =>
          \A j \in 1..Len(log) :
              /\ log[j].ev = "nested" =>
                    log[j].field \notin NoTagUnder(log[j].typ, stack[1].TagKey)
              /\ log[j].ev \in {"miss", "env", "badenv", "default", "baddefault"} =>
                    \E n \in FieldNames(log[j].typ) \ NoTagUnder(log[j].typ, stack[1].TagKey) :
                        getTagEnvVarName(FieldAt(log[j].typ, n).tags[getTagKey(stack[1].TagKey)])
                            = log[j].name

(* AltTagConfig built under the tag key "alt" while MY_INT is set: MyInt,   *)
(* tagged under envvar only, stays 0, and the nested MyVal stays 0 while    *)
(* A_MY_VAL is set                                                          *)
C26_Witness ==
    /\ Len(stack) = 1
    /\ Top.typ = "AltTagConfig"
    /\ Top.TagKey = "alt"
    /\ Top.pc = "Return"
    /\ Top.err = NoErr
    /\ env["MY_INT"] = <<"42">>
    /\ env["A_MY_VAL"] = <<"42">>
    /\ env["A_G"] = <<"42">>
    /\ Top.cfg[1].MyInt = 0
    /\ Top.cfg[1].Child = [G |-> 42, MyVal |-> 0]


(* the fields of a frame's type that are decoded with unmarshalJSON and     *)
(* declare a default document                                               *)
JSONDefaultFields(fr) ==
    {f \in {Types[fr.typ].fields[i] : i \in 1..Len(Types[fr.typ].fields)} :
        /\ getTagKey(fr.TagKey) \in DOMAIN f.tags
        /\ getTagAttribute(f.tags[getTagKey(fr.TagKey)], tagAttrUnmarshalJSON).found
        /\ getTagAttribute(f.tags[getTagKey(fr.TagKey)], tagAttrDefault).found
        /\ f.kind = "struct"}

(* the object rec with the keys of document doc laid over it *)
Overlay(rec, doc) ==
    [n \in DOMAIN rec |-> IF n \in DOMAIN JSONDocs[doc] THEN JSONDocs[doc][n] ELSE rec[n]]

(* C28: a field with unmarshalJSON and a default document holds, once       *)
(* ApplyDefaults is over, the value it had with the keys of the default     *)
(* document laid over it; after a successful Build with an external         *)
(* document, that value with the keys of the external document laid over    *)
(* it: keys the external document does not name keep the default's value.   *)
C28_JSONOverlay ==
    \A i \in 1..Len(stack) :
        LET fr == stack[i]
        IN  \A f \in JSONDefaultFields(fr) :
               LET tag == f.tags[getTagKey(fr.TagKey)]
                   def == getTagAttribute(tag, tagAttrDefault).val
                   key == fr.prefix \o getTagEnvVarName(tag)
                   withDefault == Overlay(fr.pre[1][f.name], def)
               IN  /\ (fr.pc = "ResolveExternal" /\ fr.idx = 1 /\ def \in DOMAIN JSONDocs) =>
                         fr.cfg[1][f.name] = withDefault
                   /\ (Succeeded(fr) /\ def \in DOMAIN JSONDocs) =>
                         IF IsSet(key)
                         THEN /\ env[key][1] \in DOMAIN JSONDocs
                              /\ fr.cfg[1][f.name] = Overlay(withDefault, env[key][1])
                              /\ f.name \in fr.setProps.keys
                         ELSE /\ fr.cfg[1][f.name] = withDefault
                              /\ f.name \notin fr.setProps.keys

(* TestJSONConfig with the default {"i":3} and the external document        *)
(* {"s":"ahoy"}: MyInt is the default's 3, MyString the external "ahoy"     *)
C28_Witness ==
    /\ result.done
    /\ result.err = NoErr
    /\ result.root = "TestJSONConfig"
    /\ result.entry = "Build"
    /\ env["DEFAULT_JSON_CHILD"] = <<"{\"s\":\"ahoy\"}">>
    /\ result.cfg[1].DefaultJSONChild = [MyInt |-> 3, MyString |-> "ahoy"]


-----------------------------------------------------------------------------
(* Properties of the coercion, checked under CoerceSpec *)

(* the positions of the separator in s, and the k-th piece between them *)
SepPositions(s, sep) == {i \in 1..Len(s) : s[i] = sep}

NumPieces(s, sep) == Cardinality(SepPositions(s, sep)) + 1

PieceAt(s, sep, k) ==
    LET before(i) == Cardinality({j \in SepPositions(s, sep) : j < i})
        from == IF k = 1 THEN 1
                ELSE (CHOOSE i \in SepPositions(s, sep) : before(i) = k - 2) + 1
        to == IF k = NumPieces(s, sep) THEN Len(s)
              ELSE (CHOOSE i \in SepPositions(s, sep) : before(i) = k - 1) - 1
    IN  SubSeq(s, from, to)

(* x without the spaces it starts and ends with *)
Trimmed(x) ==
    LET inner == {i \in 1..Len(x) : x[i] /= " "}
    IN  IF inner = {} THEN << >>
        ELSE SubSeq(x, CHOOSE i \in inner : \A j \in inner : i <= j,
                       CHOOSE i \in inner : \A j \in inner : j <= i)

(* the separators in force for a coercion *)
ListSepOf(b) == IF b.ListSeparator = "" THEN "," ELSE b.ListSeparator

KeyValueSepOf(b) == IF b.KeyValueSeparator = "" THEN ":" ELSE b.KeyValueSeparator

WidthOf(kind) == IF kind = "int64" THEN 64 ELSE 8

(* the numbers the string holds: the string itself for a scalar or a       *)
(* pointer, the trimmed pieces for a list                                   *)
NumbersOf(kind, b, s) ==
    IF kind = "[]int8"
    THEN {Trimmed(PieceAt(s, ListSepOf(b), k)) : k \in 1..NumPieces(s, ListSepOf(b))}
    ELSE {s}

IsLiteral(x) == Len(x) = 1 /\ x[1] \in DOMAIN IntLitBits

(* C27: when every number of the string is an integer literal and one of    *)
(* them is outside the range of the destination (an int8 or int64 field, a  *)
(* pointer to int8, an element of an int8 list), the coercion fails with    *)
(* the error "overflow error" and the field keeps the value it held.        *)
C27_OverflowDistinct ==
    (/\ coIn.done
     /\ coIn.kind \in IntKinds
     /\ \A x \in NumbersOf(coIn.kind, coIn.b, coIn.s) : IsLiteral(x)
     /\ \E x \in NumbersOf(coIn.kind, coIn.b, coIn.s) :
           IntLitBits[x[1]].bits > WidthOf(coIn.kind)) =>
        /\ coOut.err = "overflow error"
        /\ coOut.val = HeldBefore(coIn.kind)


(* C29: coercing a string into a list of strings gives one element per      *)
(* piece between occurrences of the list separator in force (the configured *)
(* one, the comma only when none is configured), in the order of the        *)
(* string, each element being its piece without the surrounding spaces; the *)
(* coercion does not fail.                                                  *)
C29_ListSplit ==
    (coIn.done /\ coIn.kind = "[]string") =>
        LET sep == ListSepOf(coIn.b)
        IN  /\ coOut.err = ""
            /\ DOMAIN coOut.val = 1..NumPieces(coIn.s, sep)
            /\ \A k \in 1..NumPieces(coIn.s, sep) :
                  coOut.val[k] = Join(Trimmed(PieceAt(coIn.s, sep, k)))

(* a custom separator is configured and the comma stays inside an element *)
C29_Witness ==
    /\ coIn.done
    /\ coIn.kind = "[]string"
    /\ coIn.b.ListSeparator = ";"
    /\ coIn.s = <<"a", ",", "b", ";", " ">>
    /\ coOut.val = <<"a,b", "">>

(* the pairs of the string, and whether each holds one key/value separator *)
PairsWellFormed(b, s) ==
    \A k \in 1..NumPieces(s, ListSepOf(b)) :
        Cardinality(SepPositions(PieceAt(s, ListSepOf(b), k), KeyValueSepOf(b))) = 1

(* C30: coercing a string into a map of strings succeeds exactly when every *)
(* pair between list separators holds exactly one key/value separator; then *)
(* the map has the keys of the pairs, and otherwise (the empty string       *)
(* included) the error names the key/value separator expected and the field *)
(* keeps the value it held.                                                 *)
C30_MapPairs ==
    (coIn.done /\ coIn.kind = "map[string]string") =>
        LET sep == ListSepOf(coIn.b)
            kvsep == KeyValueSepOf(coIn.b)
            keyOf(k) == LET p == PieceAt(coIn.s, sep, k)
                            at == CHOOSE i \in SepPositions(p, kvsep) : TRUE
                        IN  Join(SubSeq(p, 1, at - 1))
        IN  /\ (coOut.err = "") <=> PairsWellFormed(coIn.b, coIn.s)
            /\ PairsWellFormed(coIn.b, coIn.s) =>
                  DOMAIN coOut.val = {keyOf(k) : k \in 1..NumPieces(coIn.s, sep)}
            /\ ~PairsWellFormed(coIn.b, coIn.s) =>
                  /\ coOut.err = "key/value pair must contain exactly one "
                                    \o Quote(kvsep) \o " separator"
                  /\ coOut.val = HeldBefore(coIn.kind)
            /\ coIn.s = << >> => coOut.err /= ""

(* a pair with two key/value separators is refused *)
C30_Witness ==
    /\ coIn.done
    /\ coIn.kind = "map[string]string"
    /\ coIn.b.KeyValueSeparator = ""
    /\ coIn.s = <<"a", ":", "a", ":", "a">>
    /\ coOut.err = "key/value pair must contain exactly one \":\" separator"
    /\ coOut.val = HeldBefore("map[string]string")

====
